---------------------------- MODULE Spec2Model ----------------------------
(***************************************************************************)
(* Model of the zerde-serverless-bot worker: the vote-to-ban session kept  *)
(* in DynamoDB (worker/repositories/vote_repository.py) and the callback   *)
(* and command handlers that drive it (worker/services/handlers.py), and   *)
(* the join / verify / timeout workflow of the same handlers.              *)
(*                                                                         *)
(* Worker invocations run concurrently; one step of the model is one call  *)
(* to the store or to the Telegram gateway together with the local code    *)
(* that follows it up to the next call.  Calls whose only effect is local  *)
(* to the invocation (answer_callback_query, a read whose result is only   *)
(* formatted into a text) are folded into the neighbouring step.           *)
(***************************************************************************)
EXTENDS Integers, Sequences, FiniteSets, TLC

\* ------------------------------------------------------------- bounds
NumUsers == 4        \* user ids 1..NumUsers; the last one is the vote target
NumInv == 2          \* worker invocations running concurrently
MaxSessions == 1     \* vote sessions created for the target
MaxVotebans == 2     \* /voteban commands accepted for the target, the first included
MaxFails == 1        \* transient failures of store / gateway calls
NumCands == 1        \* users 1..NumCands join the chat; user NumCands + 1 only clicks
MaxJoins == 2        \* join updates handled
MaxDeliveries == 2   \* deliveries of CHECK_TIMEOUT tasks (the queue is at-least-once)
MaxClicks == 2       \* verify callbacks delivered
MaxMembers == 3      \* members announced by one join update
MaxRecords == 3      \* queue records in one batch

\* ------------------------------------------------------------- constants
\* services.VOTEBAN_THRESHOLD / VOTEBAN_FORGIVE_THRESHOLD are imported by
\* handlers.py:11-17; the spec names them "fixed constants".  They are scaled
\* down to 2: the branches of the handler compare counts with them and do not
\* depend on their size.
VOTEBAN_THRESHOLD == 2
VOTEBAN_FORGIVE_THRESHOLD == 2

Users == 1..NumUsers
TargetId == NumUsers
Slots == 1..NumInv
MaxCalls == NumInv + 1   \* vote callbacks delivered in one behaviour

VARIABLES
    item,       \* the record stored under voteban_{chat}_{target}
    stale,      \* its previous version (an eventually consistent read may return it)
    gen,        \* lifetimes of the record so far: put_item and delete_item start a new one
    created,    \* vote sessions created so far
    tstatus,    \* platform status of the target in the chat
    inv,        \* vote-callback invocations of handle_verification in flight
    last,       \* the invocation that returned last, as it returned
    calls,      \* vote callbacks delivered so far
    chose,      \* per user, the sides asked for in direct add_vote calls
    fails,      \* transient failures injected so far
    mstatus,    \* getChatMember status of each candidate
    can_send,   \* can_send_messages of a restricted candidate
    msgs,       \* challenge messages in the chat: [id, user]
    tasks,      \* CHECK_TIMEOUT tasks enqueued: [user_id, message_id]
    stats,      \* StatsRepository counters of the chat
    winv,       \* join / verify / timeout invocations in flight
    wlast,      \* the one that returned last, as it returned
    events,     \* joins, task deliveries and verify callbacks so far
    trail,      \* per candidate, what has happened to them (history)
    jrun,       \* one run of handle_new_member on a join update
    drun,       \* one run of Dispatcher.process_update on an update
    brun,       \* one run of lambda_handler on a batch of queue records
    vrun,       \* one run of handle_voteban on a /voteban command
    crun,       \* one Context built from an update, and a reply through it
    trun,       \* one run of process_timeout_task on a task body
    rrun        \* one run of the receiver's lambda_handler on a webhook request

storeVars == <<item, stale, gen, created>>
runVars == <<inv, last, calls>>
voteVars == <<item, stale, gen, created, tstatus, inv, last, calls, chose>>
verVars == <<mstatus, can_send, msgs, tasks, stats, winv, wlast, events, trail>>
hVars == <<jrun, drun, brun, vrun, crun, trun, rrun>>
vars == <<voteVars, verVars, hVars, fails>>

\* ------------------------------------------------------------- helpers
ToSet(s) == {s[k] : k \in 1..Len(s)}

\* DynamoDB contains(path, operand) on a list attribute; a missing attribute
\* (kept here as the empty list) gives false.
Contains(list, x) == \E k \in 1..Len(list) : list[k] = x

\* get_item on a key with no item: resp.get("Item") or {}
NoItem == [exists |-> FALSE, votes_for |-> <<>>, votes_against |-> <<>>,
           message_id |-> 0, initiator_user_id |-> 0]

\* VoteRepository.get_vote_session reads with ConsistentRead=False
ReadVersions == {item, stale}

\* VoteRepository.get_vote_session: the lists are returned as sets
get_vote_session(it) ==
    [votes_for |-> ToSet(it.votes_for),
     votes_against |-> ToSet(it.votes_against),
     message_id |-> it.message_id,
     initiator_user_id |-> it.initiator_user_id]

\* VoteRepository.create_vote_session: the item written by put_item
create_vote_session(message_id, initiator_user_id) ==
    [exists |-> TRUE, votes_for |-> <<initiator_user_id>>, votes_against |-> <<>>,
     message_id |-> message_id, initiator_user_id |-> initiator_user_id]

\* add_vote, line 100: the in-memory membership test on the session read
AlreadyVoted(session, voter_id) ==
    voter_id \in session.votes_for \/ voter_id \in session.votes_against

ConditionExprForOnly(it, voter_id) == ~Contains(it.votes_for, voter_id)

\* add_vote, line 112: ConditionExpression
ConditionExpr(it, voter_id) ==
    ~Contains(it.votes_for, voter_id) /\ ~Contains(it.votes_against, voter_id)

UpdateExprOverwrite(it, vote_for, voter_id) ==
    IF vote_for
    THEN [it EXCEPT !.exists = TRUE, !.votes_for = <<voter_id>>]
    ELSE [it EXCEPT !.exists = TRUE, !.votes_against = <<voter_id>>]

\* add_vote, lines 109-111: UpdateExpression
\* SET attr = list_append(if_not_exists(attr, :empty_list), :voter_list)
\* (update_item creates the item when the key has none)
UpdateExpr(it, vote_for, voter_id) ==
    IF vote_for
    THEN [it EXCEPT !.exists = TRUE, !.votes_for = Append(@, voter_id)]
    ELSE [it EXCEPT !.exists = TRUE, !.votes_against = Append(@, voter_id)]

\* handle_verification, line 221 and line 263
BanReached(votes_for) == votes_for >= VOTEBAN_THRESHOLD
ForgiveReached(votes_against) == votes_against >= VOTEBAN_FORGIVE_THRESHOLD

ResolutionForgiveFirst(votes_for, votes_against) ==
    IF ForgiveReached(votes_against) THEN "fg_send"
    ELSE IF BanReached(votes_for) THEN "ban_kick"
    ELSE "ed_edit"

\* handle_verification, lines 217-263: the branch taken on the counts returned
Resolution(votes_for, votes_against) ==
    IF BanReached(votes_for) THEN "ban_kick"
    ELSE IF ForgiveReached(votes_against) THEN "fg_send"
    ELSE "ed_edit"

IdleInv == [pc |-> "idle", voter |-> 0, vote_for |-> FALSE,
            votes_for |-> 0, votes_against |-> 0, already_voted |-> FALSE,
            was_member |-> FALSE, sess |-> 0, did |-> {}]

CanFail == fails < MaxFails

\* the one chat of the model, and the delay handle_new_member asks for
ChatId == 100
VERIFY_DELAY_SECONDS == 60

Cands == 1..NumCands
Clickers == 1..(NumCands + 1)

IdleW == [pc |-> "idle", kind |-> "none", user |-> 0, actor |-> 0, msg |-> 0,
          status |-> "", can_send |-> TRUE, kicks |-> 0, dels |-> 0,
          saw_verified |-> FALSE, after_verify |-> FALSE,
          after_kick |-> FALSE, after_window_verify |-> FALSE, did |-> {}]

\* handle_new_member before it is called
IdleJoin == [pc |-> "idle", members |-> <<>>, k |-> 0, msg |-> 0, sent |-> 0,
             log |-> <<>>, nominal |-> TRUE]

NoTrail == [restored |-> FALSE, kicked |-> FALSE,
            kick_after_restore |-> FALSE, welcome_after_kick |-> FALSE,
            call_returned |-> FALSE, call_kicked |-> FALSE,
            verified_after_call |-> FALSE, verified_after_kick |-> FALSE,
            timeout_started |-> FALSE, verified_in_window |-> FALSE]

VerInit ==
    /\ mstatus = [u \in Cands |-> "left"]
    /\ can_send = [u \in Cands |-> TRUE]
    /\ msgs = {}
    /\ tasks = {}
    /\ stats = [total_joins |-> 0, verified_users |-> 0]
    /\ winv = [i \in Slots |-> IdleW]
    /\ wlast = IdleW
    /\ events = [joins |-> 0, sent |-> 0, deliveries |-> 0, clicks |-> 0]
    /\ trail = [u \in Cands |-> NoTrail]

IdleDispatch ==
    [pc |-> "idle", update |-> <<>>, invoked |-> <<>>, calls |-> <<>>,
     logged |-> FALSE, raised |-> FALSE]

IdleBatch == [pc |-> "idle", Records |-> <<>>, k |-> 0, outcome |-> <<>>, raised |-> FALSE]

IdleVoteban ==
    [pc |-> "idle", update |-> <<>>, reply |-> "", status |-> "", calls |-> <<>>,
     did |-> {}, raised |-> FALSE]

IdleContext ==
    [pc |-> "idle", update |-> <<>>, default_lang |-> "", chat_id |-> 0,
     lang_code |-> "", calls |-> <<>>, raised |-> FALSE]

IdleTask ==
    [pc |-> "idle", task_data |-> <<>>, calls |-> <<>>, raised |-> FALSE]

IdleReceiver ==
    [pc |-> "idle", event |-> <<>>, queue |-> <<>>, response |-> <<>>, logged |-> FALSE]

HInit ==
    /\ jrun = IdleJoin /\ drun = IdleDispatch /\ brun = IdleBatch
    /\ vrun = IdleVoteban
    /\ crun = IdleContext
    /\ trun = IdleTask
    /\ rrun = IdleReceiver

\* ------------------------------------------------------------- Init
Init ==
    /\ item = NoItem
    /\ stale = NoItem
    /\ gen = 0
    /\ created = 0
    /\ tstatus = "member"
    /\ inv = [i \in Slots |-> IdleInv]
    /\ last = IdleInv
    /\ calls = 0
    /\ chose = [u \in Users |-> {}]
    /\ fails = 0
    /\ VerInit
    /\ HInit

\* ------------------------------------------------------------- the store
\* every write keeps the version it replaces readable by a later
\* eventually consistent read
Write(new) == item' = new /\ stale' = item

\* VoteRepository.create_vote_session (the call handle_voteban makes at
\* line 515): put_item replaces whatever is stored under the key
CreateSession(initiator_user_id) ==
    /\ created < MaxSessions
    /\ initiator_user_id # TargetId
    /\ Write(create_vote_session(created + 1, initiator_user_id))
    /\ gen' = gen + 1
    /\ created' = created + 1
    /\ UNCHANGED <<tstatus, runVars, chose, fails, verVars, hVars>>

\* ------------------------------------------------------------- vote callback
\* the handler returns: the worker is free for the next record
Finish(i, rec, effects) ==
    /\ last' = [rec EXCEPT !.pc = "done", !.did = @ \cup effects]
    /\ inv' = [inv EXCEPT ![i] = IdleInv]
    /\ UNCHANGED <<calls, verVars, hVars>>

Goto(i, rec, pc, effects) ==
    /\ inv' = [inv EXCEPT ![i] = [rec EXCEPT !.pc = pc, !.did = @ \cup effects]]
    /\ UNCHANGED <<last, calls, verVars, hVars>>

Fail == CanFail /\ fails' = fails + 1

\* a worker picks up a call of user voter_id for the target
StartInv(i, voter_id, vote_for) ==
    /\ calls < MaxCalls
    /\ inv[i].pc = "idle"
    /\ \A j \in Slots : j < i => inv[j].pc # "idle"
    /\ inv' = [inv EXCEPT ![i] = [IdleInv EXCEPT !.pc = "get", !.voter = voter_id,
                                                 !.vote_for = vote_for]]
    /\ calls' = calls + 1
    /\ UNCHANGED <<storeVars, tstatus, last, fails, verVars, hVars>>

\* handle_verification, lines 181-201: a voteban_for_ / voteban_against_
\* callback of user voter_id for the target
VoteStart(i, voter_id, vote_for) ==
    /\ StartInv(i, voter_id, vote_for)
    /\ UNCHANGED chose

\* the voter is in one of the stored lists
IsMember(it, voter_id) ==
    voter_id \in ToSet(it.votes_for) \cup ToSet(it.votes_against)

\* add_vote, lines 101-105 and 140-144: the result for a voter found in the session
Refused(rec, session) ==
    [rec EXCEPT !.already_voted = TRUE,
                !.was_member = IsMember(item, rec.voter),
                !.votes_for = Cardinality(session.votes_for),
                !.votes_against = Cardinality(session.votes_against)]

\* add_vote, lines 130-135: the result of a successful update_item
\* (ReturnValues=ALL_NEW)
Recorded(rec, new) ==
    [rec EXCEPT !.already_voted = FALSE,
                !.was_member = IsMember(item, rec.voter),
                !.votes_for = Len(new.votes_for),
                !.votes_against = Len(new.votes_against),
                !.sess = gen]

\* add_vote, lines 99-105, then handle_verification, lines 203-209
AddVoteGet(i) ==
    /\ inv[i].pc = "get"
    /\ \E r \in ReadVersions :
         LET session == get_vote_session(r) IN
         IF AlreadyVoted(session, inv[i].voter)
         THEN Finish(i, Refused(inv[i], session), {"answer_already"})
         ELSE Goto(i, inv[i], "update", {})
    /\ UNCHANGED <<storeVars, tstatus, chose, fails>>

\* get_item raises: add_vote re-raises (line 146), handle_verification
\* answers "Verification failed." (lines 362-368)
AddVoteGetFail(i) ==
    /\ inv[i].pc = "get"
    /\ Fail
    /\ Finish(i, inv[i], {"except"})
    /\ UNCHANGED <<storeVars, tstatus, chose>>

\* add_vote, lines 107-144: the conditional update_item, atomic at the store;
\* then handle_verification, lines 203-221
AddVoteUpdate(i) ==
    /\ inv[i].pc = "update"
    /\ IF ConditionExpr(item, inv[i].voter)
       THEN LET new == UpdateExpr(item, inv[i].vote_for, inv[i].voter)
                rec == Recorded(inv[i], new)
            IN /\ Write(new)
               /\ Goto(i, rec, Resolution(rec.votes_for, rec.votes_against),
                       {"vote_recorded", "answer_recorded"})
       ELSE \* ConditionalCheckFailedException, lines 138-144
            /\ \E r \in ReadVersions :
                 Finish(i, Refused(inv[i], get_vote_session(r)),
                        {"condition_failed", "answer_already"})
            /\ UNCHANGED <<item, stale>>
    /\ UNCHANGED <<gen, created, tstatus, chose, fails>>

\* update_item raises another ClientError: nothing is written
AddVoteUpdateFail(i) ==
    /\ inv[i].pc = "update"
    /\ Fail
    /\ Finish(i, inv[i], {"except"})
    /\ UNCHANGED <<storeVars, tstatus, chose>>

\* the vote is written but answer_callback_query (line 212) raises
AnswerRecordedFail(i) ==
    /\ inv[i].pc = "update"
    /\ ConditionExpr(item, inv[i].voter)
    /\ Fail
    /\ LET new == UpdateExpr(item, inv[i].vote_for, inv[i].voter) IN
         /\ Write(new)
         /\ Finish(i, Recorded(inv[i], new), {"vote_recorded", "except"})
    /\ UNCHANGED <<gen, created, tstatus, chose>>

\* handle_verification, lines 225-235: read the session for the mention,
\* then kick_chat_member: ban, then unban (a failed unban is only logged,
\* telegram_client.py lines 146-151)
BanKick(i, unbanned) ==
    /\ inv[i].pc = "ban_kick"
    /\ IF unbanned THEN UNCHANGED fails ELSE Fail
    /\ tstatus' = IF unbanned THEN "left" ELSE "kicked"
    /\ Goto(i, inv[i], "ban_send", {"kick"})
    /\ UNCHANGED <<storeVars, chose>>

BanKickFailDeletes(i) ==
    /\ inv[i].pc = "ban_kick"
    /\ Fail
    /\ Finish(i, inv[i], {"ban_failed"})
    /\ Write(NoItem)
    /\ gen' = gen + 1
    /\ UNCHANGED <<created, tstatus, chose>>

\* get_vote_session or the ban call raises: lines 258-260
BanKickFail(i) ==
    /\ inv[i].pc = "ban_kick"
    /\ Fail
    /\ Finish(i, inv[i], {"ban_failed"})
    /\ UNCHANGED <<storeVars, tstatus, chose>>

\* lines 238-254: announce the ban, then best-effort delete of the vote message
BanSend(i, deleted) ==
    /\ inv[i].pc = "ban_send"
    /\ IF deleted THEN UNCHANGED fails ELSE Fail
    /\ Goto(i, inv[i], "ban_delsess",
            {"announce_ban", IF deleted THEN "delete_msg" ELSE "delete_msg_failed"})
    /\ UNCHANGED <<storeVars, tstatus, chose>>

BanSendFail(i) ==
    /\ inv[i].pc = "ban_send"
    /\ Fail
    /\ Finish(i, inv[i], {"ban_failed"})
    /\ UNCHANGED <<storeVars, tstatus, chose>>

\* VoteRepository.delete_vote_session
delete_vote_session ==
    /\ Write(NoItem)
    /\ gen' = gen + 1
    /\ UNCHANGED created

\* line 256
BanDeleteSession(i) ==
    /\ inv[i].pc = "ban_delsess"
    /\ delete_vote_session
    /\ Finish(i, inv[i], {"delete_session"})
    /\ UNCHANGED <<tstatus, chose, fails>>

BanDeleteSessionFail(i) ==
    /\ inv[i].pc = "ban_delsess"
    /\ Fail
    /\ Finish(i, inv[i], {"ban_failed"})
    /\ UNCHANGED <<storeVars, tstatus, chose>>

\* lines 263-291: read the session, announce forgiveness, best-effort delete
ForgiveSend(i, deleted) ==
    /\ inv[i].pc = "fg_send"
    /\ IF deleted THEN UNCHANGED fails ELSE Fail
    /\ Goto(i, inv[i], "fg_delsess",
            {"announce_forgive", IF deleted THEN "delete_msg" ELSE "delete_msg_failed"})
    /\ UNCHANGED <<storeVars, tstatus, chose>>

\* the forgive branch has no try of its own: lines 362-368 catch
ForgiveSendFail(i) ==
    /\ inv[i].pc = "fg_send"
    /\ Fail
    /\ Finish(i, inv[i], {"except"})
    /\ UNCHANGED <<storeVars, tstatus, chose>>

\* line 293
ForgiveDeleteSession(i) ==
    /\ inv[i].pc = "fg_delsess"
    /\ delete_vote_session
    /\ Finish(i, inv[i], {"delete_session"})
    /\ UNCHANGED <<tstatus, chose, fails>>

ForgiveDeleteSessionFail(i) ==
    /\ inv[i].pc = "fg_delsess"
    /\ Fail
    /\ Finish(i, inv[i], {"except"})
    /\ UNCHANGED <<storeVars, tstatus, chose>>

\* lines 297-356: read the session and edit the vote message in place
EditMessage(i) ==
    /\ inv[i].pc = "ed_edit"
    /\ Finish(i, inv[i], {"edit"})
    /\ UNCHANGED <<storeVars, tstatus, chose, fails>>

\* lines 353-354
EditMessageFail(i) ==
    /\ inv[i].pc = "ed_edit"
    /\ Fail
    /\ Finish(i, inv[i], {"edit_failed"})
    /\ UNCHANGED <<storeVars, tstatus, chose>>

VoteStep(i) ==
    \/ AddVoteGet(i) \/ AddVoteGetFail(i)
    \/ AddVoteUpdate(i) \/ AddVoteUpdateFail(i) \/ AnswerRecordedFail(i)
    \/ \E ok \in BOOLEAN : BanKick(i, ok)
    \/ BanKickFail(i)
    \/ \E ok \in BOOLEAN : BanSend(i, ok)
    \/ BanSendFail(i)
    \/ BanDeleteSession(i) \/ BanDeleteSessionFail(i)
    \/ \E ok \in BOOLEAN : ForgiveSend(i, ok)
    \/ ForgiveSendFail(i)
    \/ ForgiveDeleteSession(i) \/ ForgiveDeleteSessionFail(i)
    \/ EditMessage(i) \/ EditMessageFail(i)

VoteNext ==
    \/ \E u \in Users : CreateSession(u)
    \/ \E i \in Slots, u \in Users, f \in BOOLEAN : VoteStart(i, u, f)
    \/ \E i \in Slots : VoteStep(i)

\* concurrent vote callbacks on the record of one (chat, target)
SpecVote == Init /\ [][VoteNext]_vars

\* ------------------------------------------------------------- add_vote alone
\* VoteRepository.add_vote called directly, by concurrent callers, on a
\* session that create_vote_session has written for initiator 1
InitAddVote ==
    /\ item = create_vote_session(1, 1)
    /\ stale = NoItem
    /\ gen = 1
    /\ created = 1
    /\ tstatus = "member"
    /\ inv = [i \in Slots |-> IdleInv]
    /\ last = IdleInv
    /\ calls = 0
    /\ chose = [u \in Users |-> {}]
    /\ fails = 0
    /\ VerInit
    /\ HInit

AddVoteCall(i, voter_id, vote_for) ==
    /\ StartInv(i, voter_id, vote_for)
    /\ chose' = [chose EXCEPT ![voter_id] = @ \cup {vote_for}]

\* add_vote returns its counts to the caller
AddVoteReturn(i) ==
    /\ inv[i].pc \in {"ban_kick", "fg_send", "ed_edit"}
    /\ Finish(i, inv[i], {})
    /\ UNCHANGED <<storeVars, tstatus, chose, fails>>

AddVoteNext ==
    \/ \E i \in Slots, u \in Users, f \in BOOLEAN : AddVoteCall(i, u, f)
    \/ \E i \in Slots : AddVoteGet(i) \/ AddVoteUpdate(i) \/ AddVoteReturn(i)

SpecAddVote == InitAddVote /\ [][AddVoteNext]_vars

\* ------------------------------------------------------------- /voteban again
\* handle_voteban, lines 507-524, for a target whose session is stored: no
\* check looks for the session on the way (lines 435-461), and
\* create_vote_session is a put_item with no condition
VotebanAgain(initiator_user_id) ==
    /\ created < MaxVotebans
    /\ initiator_user_id # TargetId
    /\ Write(create_vote_session(created + 1, initiator_user_id))
    /\ gen' = gen + 1
    /\ created' = created + 1
    /\ UNCHANGED <<tstatus, runVars, chose, fails, verVars, hVars>>

RevoteNext ==
    \/ \E u \in Users : VotebanAgain(u)
    \/ \E i \in Slots, u \in Users, f \in BOOLEAN : AddVoteCall(i, u, f)
    \/ \E i \in Slots : AddVoteGet(i) \/ AddVoteUpdate(i) \/ AddVoteReturn(i)

\* add_vote calls on a stored session, with further /voteban commands for the
\* same target
SpecRevote == InitAddVote /\ [][RevoteNext]_vars

\* ------------------------------------------------------------- the chat
\* getChatMember: can_send_messages is a field of restricted members only
get_chat_member(u) ==
    [status |-> mstatus[u],
     restricted |-> mstatus[u] = "restricted",
     can_send_messages |-> can_send[u]]

\* process_timeout_task, line 48: member.get("can_send_messages", True)
CanSendOf(member) ==
    IF member.restricted THEN member.can_send_messages ELSE TRUE

TimeoutIgnoresStatusOnly(status, cs) ==
    status \in {"member", "administrator", "creator"}

TimeoutIgnoresMuted(status, cs) ==
    status \in {"member", "administrator", "creator", "restricted"} \/ cs

TimeoutIgnoresNever(status, cs) == FALSE

\* process_timeout_task, line 50
TimeoutIgnores(status, cs) ==
    status \in {"member", "administrator", "creator"} \/ cs

MayVerifyAnyone(user_id, target_user_id) == TRUE

\* handle_verification, line 126: only the user named in the payload goes on
MayVerify(user_id, target_user_id) == user_id = target_user_id

\* restrictChatMember acts on users who are in the chat
InChat(u) == mstatus[u] \in {"member", "restricted"}

Muted(r) == r.status = "restricted" /\ ~r.can_send

WFinish(i, rec, effects) ==
    /\ wlast' = [rec EXCEPT !.pc = "done", !.did = @ \cup effects]
    /\ winv' = [winv EXCEPT ![i] = IdleW]
    /\ UNCHANGED <<voteVars, hVars>>

WGoto(i, rec, pc, effects) ==
    /\ winv' = [winv EXCEPT ![i] = [rec EXCEPT !.pc = pc, !.did = @ \cup effects]]
    /\ UNCHANGED <<wlast, voteVars, hVars>>

WStart(i, rec) ==
    /\ winv[i].pc = "idle"
    /\ \A j \in Slots : j < i => winv[j].pc # "idle"
    /\ winv' = [winv EXCEPT ![i] = rec]
    /\ UNCHANGED <<wlast, voteVars, hVars>>

\* ------------------------------------------------------------- join
\* SQSClient.send_timeout_task: the message body and its DelaySeconds
send_timeout_task(chat_id, user_id, message_id, delay_seconds) ==
    [task_type |-> "CHECK_TIMEOUT", chat_id |-> chat_id, user_id |-> user_id,
     message_id |-> message_id, delay_seconds |-> delay_seconds]

\* user u joins the chat and the update reaches handle_new_member
JoinStart(i, u) ==
    /\ events.joins < MaxJoins
    /\ mstatus[u] = "left"
    /\ WStart(i, [IdleW EXCEPT !.pc = "j_restrict", !.kind = "join", !.user = u])
    /\ mstatus' = [mstatus EXCEPT ![u] = "member"]
    /\ events' = [events EXCEPT !.joins = @ + 1]
    /\ trail' = [trail EXCEPT ![u].restored = FALSE, ![u].kicked = FALSE,
                              ![u].timeout_started = FALSE,
                              ![u].verified_in_window = FALSE]
    /\ UNCHANGED <<can_send, msgs, tasks, stats, fails>>

\* lines 80-84: mute the member; the call raises for a user no longer there
JoinRestrict(i) ==
    /\ winv[i].pc = "j_restrict"
    /\ LET u == winv[i].user IN
       IF InChat(u)
       THEN /\ mstatus' = [mstatus EXCEPT ![u] = "restricted"]
            /\ can_send' = [can_send EXCEPT ![u] = FALSE]
            /\ trail' = [trail EXCEPT ![u].restored = FALSE,
                                      ![u].verified_in_window = FALSE]
            /\ WGoto(i, winv[i], "j_send", {"restrict"})
       ELSE /\ WFinish(i, winv[i], {"except"})
            /\ UNCHANGED <<mstatus, can_send, trail>>
    /\ UNCHANGED <<msgs, tasks, stats, events, fails>>

JoinRestrictFail(i) ==
    /\ winv[i].pc = "j_restrict"
    /\ Fail
    /\ WFinish(i, winv[i], {"except"})
    /\ UNCHANGED <<mstatus, can_send, msgs, tasks, stats, events, trail>>

\* lines 86-100: send the challenge with the button verify_<user_id>
JoinSend(i) ==
    /\ winv[i].pc = "j_send"
    /\ LET id == events.sent + 1 IN
       /\ msgs' = msgs \cup {[id |-> id, user |-> winv[i].user]}
       /\ events' = [events EXCEPT !.sent = id]
       /\ WGoto(i, [winv[i] EXCEPT !.msg = id], "j_enqueue", {"challenge"})
    /\ UNCHANGED <<mstatus, can_send, tasks, stats, trail, fails>>

JoinSendFail(i) ==
    /\ winv[i].pc = "j_send"
    /\ Fail
    /\ WFinish(i, winv[i], {"except"})
    /\ UNCHANGED <<mstatus, can_send, msgs, tasks, stats, events, trail>>

\* lines 101-106: send_timeout_task, then increment_total_joins
JoinEnqueue(i, counted) ==
    /\ winv[i].pc = "j_enqueue"
    /\ tasks' = tasks \cup {send_timeout_task(ChatId, winv[i].user, winv[i].msg,
                                               VERIFY_DELAY_SECONDS)}
    /\ IF counted
       THEN /\ stats' = [stats EXCEPT !.total_joins = @ + 1]
            /\ WFinish(i, winv[i], {"task", "count"})
            /\ UNCHANGED fails
       ELSE /\ Fail
            /\ WFinish(i, winv[i], {"task", "except"})
            /\ UNCHANGED stats
    /\ UNCHANGED <<mstatus, can_send, msgs, events, trail>>

JoinEnqueueFail(i) ==
    /\ winv[i].pc = "j_enqueue"
    /\ Fail
    /\ WFinish(i, winv[i], {"except"})
    /\ UNCHANGED <<mstatus, can_send, msgs, tasks, stats, events, trail>>

\* ------------------------------------------------------------- verify
\* lines 120-134: user actor presses the button of challenge message m
VerifyStart(i, actor, m) ==
    /\ events.clicks < MaxClicks
    /\ m \in msgs
    /\ winv[i].pc = "idle"
    /\ \A j \in Slots : j < i => winv[j].pc # "idle"
    /\ LET rec == [IdleW EXCEPT !.kind = "verify", !.user = m.user,
                                !.actor = actor, !.msg = m.id] IN
       IF MayVerify(actor, m.user)
       THEN WGoto(i, rec, "v_restrict", {})
       ELSE /\ wlast' = [rec EXCEPT !.pc = "done", !.did = {"answer_reject"}]
            /\ UNCHANGED <<winv, voteVars, hVars>>
    /\ events' = [events EXCEPT !.clicks = @ + 1]
    /\ UNCHANGED <<mstatus, can_send, msgs, tasks, stats, trail, fails>>

\* lines 144-166: restore the permissions, then answer the callback
VerifyRestrict(i, status, answered) ==
    /\ winv[i].pc = "v_restrict"
    /\ LET u == winv[i].user IN
       IF InChat(u)
       THEN /\ mstatus' = [mstatus EXCEPT ![u] = status]
            /\ can_send' = [can_send EXCEPT ![u] = TRUE]
            /\ trail' = [trail EXCEPT
                 ![u].restored = TRUE,
                 ![u].verified_after_call = @ \/ trail[u].call_returned,
                 ![u].verified_after_kick = @ \/ trail[u].call_kicked]
            /\ IF answered
               THEN WGoto(i, winv[i], "v_delete", {"restrict", "answer"}) /\ UNCHANGED fails
               ELSE WFinish(i, winv[i], {"restrict", "except"}) /\ Fail
       ELSE /\ status = "member" /\ answered
            /\ WFinish(i, winv[i], {"except"})
            /\ UNCHANGED <<mstatus, can_send, trail, fails>>
    /\ UNCHANGED <<msgs, tasks, stats, events>>

VerifyRestrictFail(i) ==
    /\ winv[i].pc = "v_restrict"
    /\ Fail
    /\ WFinish(i, winv[i], {"except"})
    /\ UNCHANGED <<mstatus, can_send, msgs, tasks, stats, events, trail>>

VerifyDeleteAborts(i, deleted) ==
    /\ winv[i].pc = "v_delete"
    /\ IF deleted
       THEN /\ msgs' = {m \in msgs : m.id # winv[i].msg}
            /\ WGoto(i, [winv[i] EXCEPT !.dels = @ + 1], "v_welcome", {"delete_msg"})
            /\ UNCHANGED fails
       ELSE /\ Fail
            /\ WFinish(i, [winv[i] EXCEPT !.dels = @ + 1], {"delete_msg_failed"})
            /\ UNCHANGED msgs
    /\ UNCHANGED <<mstatus, can_send, tasks, stats, events, trail>>

\* lines 167-170: best-effort delete of the challenge message
VerifyDelete(i, deleted) ==
    /\ winv[i].pc = "v_delete"
    /\ IF deleted
       THEN msgs' = {m \in msgs : m.id # winv[i].msg} /\ UNCHANGED fails
       ELSE Fail /\ UNCHANGED msgs
    /\ WGoto(i, [winv[i] EXCEPT !.dels = @ + 1], "v_welcome",
             IF deleted THEN {"delete_msg"} ELSE {"delete_msg_failed"})
    /\ UNCHANGED <<mstatus, can_send, tasks, stats, events, trail>>

\* lines 172-178: welcome message, then increment_verified_users
VerifyWelcome(i, counted) ==
    /\ winv[i].pc = "v_welcome"
    /\ LET u == winv[i].user IN
       trail' = [trail EXCEPT
         ![u].welcome_after_kick = @ \/ trail[u].kicked,
         ![u].verified_in_window =
             @ \/ (/\ counted
                   /\ trail[u].restored
                   /\ ~trail[u].timeout_started)]
    /\ IF counted
       THEN /\ stats' = [stats EXCEPT !.verified_users = @ + 1]
            /\ WFinish(i, winv[i], {"welcome", "count"})
            /\ UNCHANGED fails
       ELSE /\ Fail
            /\ WFinish(i, winv[i], {"welcome", "except"})
            /\ UNCHANGED stats
    /\ UNCHANGED <<mstatus, can_send, msgs, tasks, events>>

VerifyWelcomeFail(i) ==
    /\ winv[i].pc = "v_welcome"
    /\ Fail
    /\ WFinish(i, winv[i], {"except"})
    /\ UNCHANGED <<mstatus, can_send, msgs, tasks, stats, events, trail>>

\* ------------------------------------------------------------- timeout
\* the queue delivers a CHECK_TIMEOUT task (at least once): lines 38-43
TimeoutStart(i, t) ==
    /\ events.deliveries < MaxDeliveries
    /\ t \in tasks
    /\ WStart(i, [IdleW EXCEPT !.pc = "t_read", !.kind = "timeout",
                               !.user = t.user_id, !.msg = t.message_id,
                               !.after_verify = trail[t.user_id].verified_after_call,
                               !.after_kick = trail[t.user_id].verified_after_kick,
                               !.after_window_verify =
                                   trail[t.user_id].verified_in_window])
    /\ events' = [events EXCEPT !.deliveries = @ + 1]
    /\ trail' = [trail EXCEPT ![t.user_id].timeout_started = TRUE]
    /\ UNCHANGED <<mstatus, can_send, msgs, tasks, stats, fails>>

\* a timeout call returns
TimeoutReturn(i, rec, effects) ==
    /\ WFinish(i, rec, effects)
    /\ trail' = [trail EXCEPT
         ![rec.user].call_returned = TRUE,
         ![rec.user].call_kicked = @ \/ "kick" \in (rec.did \cup effects)]

\* lines 45-52: the live status read decides
TimeoutRead(i) ==
    /\ winv[i].pc = "t_read"
    /\ LET member == get_chat_member(winv[i].user)
           rec == [winv[i] EXCEPT !.status = member.status,
                                  !.can_send = CanSendOf(member),
                                  !.saw_verified = trail[winv[i].user].restored,
                                  !.after_window_verify =
                                      @ /\ trail[winv[i].user].verified_in_window]
       IN IF TimeoutIgnores(rec.status, rec.can_send)
          THEN TimeoutReturn(i, rec, {"read", "ignored"})
          ELSE WGoto(i, rec, "t_kick", {"read"}) /\ UNCHANGED trail
    /\ UNCHANGED <<mstatus, can_send, msgs, tasks, stats, events, fails>>

\* get_chat_member raises: line 59
TimeoutReadFail(i) ==
    /\ winv[i].pc = "t_read"
    /\ Fail
    /\ TimeoutReturn(i, winv[i], {"except"})
    /\ UNCHANGED <<mstatus, can_send, msgs, tasks, stats, events>>

\* line 53: kick_chat_member is a ban followed by an unban whose failure is
\* only logged
TimeoutKick(i, unbanned) ==
    /\ winv[i].pc = "t_kick"
    /\ IF unbanned THEN UNCHANGED fails ELSE Fail
    /\ LET u == winv[i].user IN
       /\ mstatus' = [mstatus EXCEPT ![u] = IF unbanned THEN "left" ELSE "kicked"]
       /\ trail' = [trail EXCEPT ![u].kicked = TRUE,
                                 ![u].kick_after_restore = @ \/ trail[u].restored]
    /\ WGoto(i, [winv[i] EXCEPT !.kicks = @ + 1], "t_delete", {"kick"})
    /\ UNCHANGED <<can_send, msgs, tasks, stats, events>>

\* the ban raises: line 59
TimeoutKickFail(i) ==
    /\ winv[i].pc = "t_kick"
    /\ Fail
    /\ TimeoutReturn(i, winv[i], {"except"})
    /\ UNCHANGED <<mstatus, can_send, msgs, tasks, stats, events>>

\* lines 54-58: best-effort delete of the challenge message
TimeoutDelete(i, deleted) ==
    /\ winv[i].pc = "t_delete"
    /\ IF deleted
       THEN msgs' = {m \in msgs : m.id # winv[i].msg} /\ UNCHANGED fails
       ELSE Fail /\ UNCHANGED msgs
    /\ TimeoutReturn(i, [winv[i] EXCEPT !.dels = @ + 1],
                     IF deleted THEN {"delete_msg"} ELSE {"delete_msg_failed"})
    /\ UNCHANGED <<mstatus, can_send, tasks, stats, events>>

VerStep(i) ==
    \/ JoinRestrict(i) \/ JoinRestrictFail(i)
    \/ JoinSend(i) \/ JoinSendFail(i)
    \/ \E counted \in BOOLEAN : JoinEnqueue(i, counted)
    \/ JoinEnqueueFail(i)
    \/ \E status \in {"member", "restricted"}, answered \in BOOLEAN :
         VerifyRestrict(i, status, answered)
    \/ VerifyRestrictFail(i)
    \/ \E deleted \in BOOLEAN : VerifyDelete(i, deleted)
    \/ \E counted \in BOOLEAN : VerifyWelcome(i, counted)
    \/ VerifyWelcomeFail(i)
    \/ TimeoutRead(i) \/ TimeoutReadFail(i)
    \/ \E unbanned \in BOOLEAN : TimeoutKick(i, unbanned)
    \/ TimeoutKickFail(i)
    \/ \E deleted \in BOOLEAN : TimeoutDelete(i, deleted)

VerNext ==
    \/ \E i \in Slots, u \in Cands : JoinStart(i, u)
    \/ \E i \in Slots, actor \in Clickers, m \in msgs : VerifyStart(i, actor, m)
    \/ \E i \in Slots, t \in tasks : TimeoutStart(i, t)
    \/ \E i \in Slots : VerStep(i)

\* the join / verify / timeout workflow of the candidates of one chat
SpecVerify == Init /\ [][VerNext]_vars

\* a worker invocation, once started, runs to its end
SpecVerifyFair == SpecVerify /\ \A i \in Slots : WF_vars(VerStep(i))

\* no vote traffic
VoteIdle ==
    /\ item = NoItem
    /\ stale = NoItem
    /\ gen = 0
    /\ created = 0
    /\ tstatus = "member"
    /\ inv = [i \in Slots |-> IdleInv]
    /\ last = IdleInv
    /\ calls = 0
    /\ chose = [u \in Users |-> {}]

\* the two workflows side by side: a behaviour carries vote callbacks or
\* verification traffic (they share no state)
WorkflowsNext ==
    \/ VerInit /\ VoteNext
    \/ VoteIdle /\ VerNext

SpecWorkflows == Init /\ [][WorkflowsNext]_vars

\* ------------------------------------------------------------- join update
\* handle_new_member on one update whose new_chat_members holds up to
\* MaxMembers users, each a bot or not; member k has user id UserIdOf(k)
UserIdOf(k) == 41 + k

JoinUpdates ==
    UNION {[1..n -> {[id |-> UserIdOf(k), is_bot |-> b] :
                       k \in 1..MaxMembers, b \in BOOLEAN}] : n \in 1..MaxMembers}

\* new_chat_members of one update name distinct users
WellFormed(members) == \A k \in 1..Len(members) : members[k].id = UserIdOf(k)

InitJoin ==
    /\ VoteIdle
    /\ VerInit
    /\ fails = 0
    /\ \E members \in {m \in JoinUpdates : WellFormed(m)} :
         jrun = [IdleJoin EXCEPT !.pc = "loop", !.members = members, !.k = 1]
    /\ drun = IdleDispatch
    /\ brun = IdleBatch
    /\ vrun = IdleVoteban
    /\ crun = IdleContext
    /\ trun = IdleTask
    /\ rrun = IdleReceiver

SkipMemberNever(member) == FALSE

\* handle_new_member, lines 77-78: if member.get("is_bot"): continue
SkipMember(member) == member.is_bot

JoinFrame == UNCHANGED <<voteVars, verVars, drun, brun, vrun, crun, trun, rrun>>

Logged(call) == jrun.log \o <<call>>

\* lines 76-78: the for loop, skipping bots
JoinLoop ==
    /\ jrun.pc = "loop"
    /\ jrun' = IF jrun.k > Len(jrun.members)
               THEN [jrun EXCEPT !.pc = "done"]
               ELSE IF SkipMember(jrun.members[jrun.k])
               THEN [jrun EXCEPT !.k = @ + 1]
               ELSE [jrun EXCEPT !.pc = "restrict"]
    /\ JoinFrame /\ UNCHANGED fails

\* lines 79-84
JoinLoopRestrict ==
    /\ jrun.pc = "restrict"
    /\ jrun' = [jrun EXCEPT !.pc = "send",
          !.log = Logged([call |-> "restrict_chat_member", chat_id |-> ChatId,
                          user_id |-> jrun.members[jrun.k].id,
                          can_send_messages |-> FALSE])]
    /\ JoinFrame /\ UNCHANGED fails

\* lines 86-100: the button carries verify_<user_id>; the Message returned
\* gives the message id
JoinLoopSend(has_id) ==
    /\ jrun.pc = "send"
    /\ LET id == jrun.sent + 1 IN
       jrun' = [jrun EXCEPT !.pc = IF has_id THEN "enqueue" ELSE "count",
          !.sent = id, !.msg = id,
          !.nominal = @ /\ has_id,
          !.log = Logged([call |-> "send_message", chat_id |-> ChatId,
                          callback_data |-> <<"verify_", jrun.members[jrun.k].id>>,
                          message_id |-> id])]
    /\ JoinFrame /\ UNCHANGED fails

\* lines 101-103
JoinLoopEnqueue ==
    /\ jrun.pc = "enqueue"
    /\ jrun' = [jrun EXCEPT !.pc = "count",
          !.log = Logged([call |-> "send_timeout_task",
                          task |-> send_timeout_task(ChatId, jrun.members[jrun.k].id,
                                                     jrun.msg, 60)])]
    /\ JoinFrame /\ UNCHANGED fails

\* lines 104-105
JoinLoopCount ==
    /\ jrun.pc = "count"
    /\ jrun' = [jrun EXCEPT !.pc = "loop", !.k = @ + 1,
          !.log = Logged([call |-> "increment_total_joins", chat_id |-> ChatId])]
    /\ JoinFrame /\ UNCHANGED fails

\* lines 106-109: any call of the loop raises; the handler replies and ends
JoinLoopFail ==
    /\ jrun.pc \in {"restrict", "send", "enqueue", "count"}
    /\ Fail
    /\ jrun' = [jrun EXCEPT !.pc = "done", !.nominal = FALSE,
          !.log = Logged([call |-> "reply", chat_id |-> ChatId,
                          text |-> "error_occurred"])]
    /\ JoinFrame

JoinNext ==
    \/ JoinLoop
    \/ JoinLoopRestrict
    \/ \E has_id \in BOOLEAN : JoinLoopSend(has_id)
    \/ JoinLoopEnqueue
    \/ JoinLoopCount
    \/ JoinLoopFail

\* handle_new_member on every join update of up to MaxMembers members
SpecJoin == InitJoin /\ [][JoinNext]_vars

\* ------------------------------------------------------------- properties
NoDuplicates(list) ==
    \A a, b \in 1..Len(list) : a # b => list[a] # list[b]

AllIdle == \A i \in Slots : inv[i].pc = "idle"

\* C1: under any interleaving of add_vote calls, for and against mixed, the
\* stored votes_for and votes_against are disjoint and neither holds a voter
\* id twice.
C1_VoterAtMostOnce ==
    /\ NoDuplicates(item.votes_for)
    /\ NoDuplicates(item.votes_against)
    /\ ToSet(item.votes_for) \cap ToSet(item.votes_against) = {}

\* a voter asked for both sides, one of the two calls was refused by the
\* condition of the update, and both lists are in use
C1_Witness ==
    /\ \E u \in Users : chose[u] = {TRUE, FALSE} /\ IsMember(item, u)
    /\ "condition_failed" \in last.did
    /\ Len(item.votes_for) > 1
    /\ Len(item.votes_against) > 0

\* C2: once every add_vote call on the session has returned, each distinct
\* voter is counted exactly once: next to the initiator's pre-counted vote,
\* votes_for holds the voters who asked for "for" and votes_against those who
\* asked for "against".
C2_NoVoteLost ==
    AllIdle =>
      LET voters == {u \in Users \ {1} : chose[u] # {}}
          forV == {u \in voters : chose[u] = {TRUE}}
          againstV == {u \in voters : chose[u] = {FALSE}}
      IN /\ Len(item.votes_for) + Len(item.votes_against) = 1 + Cardinality(voters)
         /\ forV \subseteq ToSet(item.votes_for)
         /\ againstV \subseteq ToSet(item.votes_against)
         /\ forV \cup againstV = voters =>
              /\ Len(item.votes_for) = 1 + Cardinality(forV)
              /\ Len(item.votes_against) = Cardinality(againstV)

\* every call has returned; two distinct voters are counted, one on each side
C2_Witness ==
    /\ AllIdle
    /\ calls = MaxCalls
    /\ \A u \in Users : Cardinality(chose[u]) <= 1
    /\ Len(item.votes_for) = 2
    /\ Len(item.votes_against) = 1

Records == {last} \cup {inv[i] : i \in Slots}

\* C3: an add_vote by a voter who is already in the session, whichever way
\* and in whichever order the calls arrive, returns already_voted = true and
\* writes nothing; the handler then only answers "already voted": no kick, no
\* announcement, no edit, no deletion of the session.
C3_AlreadyVotedChangesNothing ==
    \A r \in Records :
      /\ r.was_member => r.already_voted
      /\ r.already_voted =>
           /\ r.pc = "done"
           /\ "answer_already" \in r.did
           /\ r.did \subseteq {"answer_already", "condition_failed"}

\* a second call of a voter got past the read and was refused by the update
C3_Witness ==
    /\ last.pc = "done"
    /\ last.already_voted
    /\ last.was_member
    /\ "condition_failed" \in last.did

\* C4: of two distinct voters whose "for" votes are recorded on the same stored
\* session, at most one kicks the target: the session is banned once.
C4_BannedExactlyOnce ==
    \A r1, r2 \in Records :
      (/\ r1.vote_for /\ r2.vote_for
       /\ r1.voter # r2.voter
       /\ r1.sess = r2.sess
       /\ "kick" \in r1.did /\ "kick" \in r2.did) => FALSE

Failed(r) == r.did \cap {"except", "ban_failed", "edit_failed"} # {}

DeleteAttempt(r) == r.did \cap {"delete_msg", "delete_msg_failed"}

\* C5: a recorded vote whose handling no call failed ends in exactly one of
\* three outcomes, chosen by the counts add_vote returned with the ban check
\* first: ban (kick, announce, delete the session), else forgive (announce,
\* delete the session, no kick), else one edit with the session kept; and no
\* invocation announces both a ban and a forgiveness.
C5_OneOutcome ==
    /\ \A r \in Records :
         ~({"kick", "announce_ban"} \cap r.did # {} /\ "announce_forgive" \in r.did)
    /\ (last.pc = "done" /\ "vote_recorded" \in last.did /\ ~Failed(last)) =>
         IF last.votes_for >= VOTEBAN_THRESHOLD
         THEN /\ last.did \ DeleteAttempt(last) =
                   {"vote_recorded", "answer_recorded", "kick", "announce_ban",
                    "delete_session"}
              /\ DeleteAttempt(last) # {}
         ELSE IF last.votes_against >= VOTEBAN_FORGIVE_THRESHOLD
         THEN /\ last.did \ DeleteAttempt(last) =
                   {"vote_recorded", "answer_recorded", "announce_forgive",
                    "delete_session"}
              /\ DeleteAttempt(last) # {}
         ELSE last.did = {"vote_recorded", "answer_recorded", "edit"}

\* a vote that returned counts at both thresholds has been resolved
C5_Witness ==
    /\ last.pc = "done"
    /\ "vote_recorded" \in last.did
    /\ ~Failed(last)
    /\ last.votes_for >= VOTEBAN_THRESHOLD
    /\ last.votes_against >= VOTEBAN_FORGIVE_THRESHOLD


WRecords == {wlast} \cup {winv[i] : i \in Slots}

\* C6: a timeout call whose status read shows a normal member (member,
\* administrator, creator) or a member allowed to send messages makes no kick
\* and deletes no message.
C6_VerifiedNeverKicked ==
    \A r \in WRecords :
      (/\ r.kind = "timeout"
       /\ "read" \in r.did
       /\ (r.status \in {"member", "administrator", "creator"} \/ r.can_send))
      => (r.kicks = 0 /\ r.dels = 0 /\ "kick" \notin r.did /\ r.pc = "done")

C6_Witness ==
    /\ wlast.kind = "timeout"
    /\ wlast.status = "restricted" /\ wlast.can_send
    /\ wlast.saw_verified
    /\ "ignored" \in wlast.did

\* C7: a timeout call whose status read shows a restricted member who may not
\* send messages, and none of whose calls raises, makes exactly one kick and
\* exactly one attempt to delete the challenge message.
C7_MutedKickedOnce ==
    \A r \in WRecords :
      (/\ r.kind = "timeout"
       /\ r.pc = "done"
       /\ "read" \in r.did
       /\ Muted(r)
       /\ "except" \notin r.did)
      => (r.kicks = 1 /\ r.dels = 1)

C7_Witness ==
    /\ wlast.kind = "timeout"
    /\ Muted(wlast)
    /\ wlast.kicks = 1 /\ wlast.dels = 1
    /\ mstatus[wlast.user] = "left"
    /\ \A m \in msgs : m.id # wlast.msg

\* C8 as stated: of two timeout calls for a member who was verified after the
\* first returned and before the second started, neither kicks.
C8_NoKickOnEitherCall ==
    \A r \in WRecords :
      (r.kind = "timeout" /\ r.pc = "done" /\ r.after_verify)
      => (r.kicks = 0 /\ ~r.after_kick)

\* C8 amended: a timeout call that reads the status of a member whose
\* permissions a verification has restored since they were last muted makes no
\* kick and deletes no message, however often the task is delivered.
C8_NoKickOnceVerified ==
    \A r \in WRecords :
      (r.kind = "timeout" /\ "read" \in r.did /\ r.saw_verified)
      => (r.kicks = 0 /\ r.dels = 0)

C8_Witness ==
    /\ wlast.kind = "timeout"
    /\ wlast.after_verify
    /\ ~wlast.after_kick
    /\ wlast.saw_verified
    /\ "ignored" \in wlast.did
    /\ events.deliveries = 2

\* C9: within one join a member whose verification restored their permissions
\* is not kicked by the timeout, and a member the timeout kicked is not
\* welcomed afterwards.
C9_OneTerminalTransition ==
    \A u \in Cands :
      ~trail[u].kick_after_restore /\ ~trail[u].welcome_after_kick

\* C10: a verify callback pressed by a user other than the one named in its
\* payload only answers the callback: no permission change, no deletion, no
\* welcome, no counter.
C10_SpoofOnlyAnswers ==
    \A r \in WRecords :
      (r.kind = "verify" /\ r.actor # r.user)
      => (r.pc = "done" /\ r.did = {"answer_reject"} /\ r.dels = 0)

C10_Witness ==
    /\ wlast.kind = "verify"
    /\ wlast.actor # wlast.user
    /\ wlast.did = {"answer_reject"}
    /\ mstatus[wlast.user] = "restricted" /\ ~can_send[wlast.user]
    /\ stats.verified_users = 0

\* C11: end to end.  A join handled without a failure has muted the member,
\* sent the challenge and enqueued the CHECK_TIMEOUT task of (chat, user,
\* challenge message) with delay 60; a verification of the member by themselves
\* handled without a failure has restored the permissions, deleted the
\* challenge message, sent the welcome and counted the member; and every
\* delivery of the task that starts after a verification completed inside the
\* window (before any delivery for this join), and reads the status before the
\* member is muted by another join, makes no kick and no deletion.
C11_EndToEnd ==
    \A r \in WRecords :
      /\ (r.kind = "join" /\ r.pc = "done" /\ "except" \notin r.did) =>
            /\ r.did = {"restrict", "challenge", "task", "count"}
            /\ send_timeout_task(ChatId, r.user, r.msg, 60) \in tasks
      /\ (r.kind = "verify" /\ r.pc = "done" /\ r.actor = r.user
             /\ r.did \cap {"except", "delete_msg_failed"} = {}) =>
            /\ r.did = {"restrict", "answer", "delete_msg", "welcome", "count"}
            /\ \A m \in msgs : m.id # r.msg
      /\ (r.kind = "timeout" /\ "read" \in r.did /\ r.after_window_verify) =>
            /\ r.kicks = 0 /\ r.dels = 0
            /\ r.pc = "done" /\ "ignored" \in r.did

\* the task is delivered twice after the verification; the second is a no-op
C11_Witness ==
    /\ wlast.kind = "timeout"
    /\ wlast.after_window_verify
    /\ "ignored" \in wlast.did
    /\ events.deliveries = 2
    /\ events.joins = 1
    /\ stats = [total_joins |-> 1, verified_users |-> 1]
    /\ msgs = {}
    /\ fails = 0
    /\ trail[wlast.user].call_returned

RECURSIVE ExpectedJoinCalls(_, _, _)
\* the calls the claim asks for, member by member; sent counts the challenges
ExpectedJoinCalls(members, k, sent) ==
    IF k > Len(members) THEN <<>>
    ELSE IF members[k].is_bot THEN ExpectedJoinCalls(members, k + 1, sent)
    ELSE <<[call |-> "restrict_chat_member", chat_id |-> ChatId,
            user_id |-> members[k].id, can_send_messages |-> FALSE],
           [call |-> "send_message", chat_id |-> ChatId,
            callback_data |-> <<"verify_", members[k].id>>, message_id |-> sent + 1],
           [call |-> "send_timeout_task",
            task |-> [task_type |-> "CHECK_TIMEOUT", chat_id |-> ChatId,
                      user_id |-> members[k].id, message_id |-> sent + 1,
                      delay_seconds |-> 60]],
           [call |-> "increment_total_joins", chat_id |-> ChatId]>>
         \o ExpectedJoinCalls(members, k + 1, sent + 1)

IsPrefix(a, b) == Len(a) <= Len(b) /\ SubSeq(b, 1, Len(a)) = a

\* C12: on a join update the handler, for each member that is not a bot and in
\* order, mutes the member, sends a challenge whose button carries that
\* member's id and enqueues one CHECK_TIMEOUT task (chat, user, challenge
\* message, delay 60); it makes no call for a bot.  While no call has raised
\* the calls made are a prefix of these, and all of them when the handler
\* returns.
C12_JoinPerMember ==
    /\ jrun.nominal =>
         IsPrefix(jrun.log, ExpectedJoinCalls(jrun.members, 1, 0))
    /\ (jrun.nominal /\ jrun.pc = "done") =>
         jrun.log = ExpectedJoinCalls(jrun.members, 1, 0)
    /\ \A n \in 1..Len(jrun.log), k \in 1..Len(jrun.members) :
         (jrun.members[k].is_bot /\ jrun.log[n].call = "restrict_chat_member")
         => jrun.log[n].user_id # jrun.members[k].id

\* a bot between two users: two mutes, two challenges, two tasks
C12_Witness ==
    /\ jrun.pc = "done" /\ jrun.nominal
    /\ Len(jrun.members) = 3
    /\ ~jrun.members[1].is_bot /\ jrun.members[2].is_bot /\ ~jrun.members[3].is_bot
    /\ Len(jrun.log) = 8
    /\ jrun.log[7].task.user_id = jrun.members[3].id
    /\ jrun.log[7].task.message_id = 2

\* the bot has muted candidate u and not restored them
MutedByBot(u) == mstatus[u] = "restricted" /\ ~can_send[u]

\* the code keeps no challenge record: the challenge of u is the challenge
\* message with the verify button of u that is in the chat
ChallengeExists(u) == \E m \in msgs : m.user = u

WIdle == \A i \in Slots : winv[i].pc = "idle"

\* C13: a challenge exists for a user if and only if the user is muted by the
\* bot.  Stated for the states in which no handler is in flight, which is less
\* than the claim asks (every reachable state).
C13_ChallengeIffMuted ==
    WIdle => \A u \in Cands : ChallengeExists(u) <=> MutedByBot(u)

\* the CHECK_TIMEOUT task of u has been delivered and its handler is about to
\* read the member's status
TimeoutDelivered(u) ==
    \E i \in Slots :
      winv[i].kind = "timeout" /\ winv[i].user = u /\ winv[i].pc = "t_read"

\* the status read or the ban of a timeout call for u raised
TimeoutRaised(u) ==
    wlast.kind = "timeout" /\ wlast.user = u /\ "except" \in wlast.did

Whitespace == {" ", "\t", "\n"}

RECURSIVE lstrip(_, _)
\* str.lstrip(chars)
lstrip(s, chars) ==
    IF s = <<>> \/ s[1] \notin chars THEN s ELSE lstrip(Tail(s), chars)

RECURSIVE rstrip(_, _)
rstrip(s, chars) ==
    IF s = <<>> \/ s[Len(s)] \notin chars THEN s
    ELSE rstrip(SubSeq(s, 1, Len(s) - 1), chars)

\* str.strip()
strip(s) == rstrip(lstrip(s, Whitespace), Whitespace)

\* str.startswith(prefix)
startswith(s, prefix) ==
    Len(s) >= Len(prefix) /\ SubSeq(s, 1, Len(prefix)) = prefix

RECURSIVE TokenLen(_)
\* length of the run of non-whitespace characters s begins with
TokenLen(s) ==
    IF s = <<>> \/ s[1] \in Whitespace THEN 0 ELSE 1 + TokenLen(Tail(s))

RECURSIVE split(_)
\* str.split(): the whitespace-delimited tokens, no empty ones
split(s) ==
    LET t == lstrip(s, Whitespace) IN
    IF t = <<>> THEN <<>>
    ELSE <<SubSeq(t, 1, TokenLen(t))>> \o split(SubSeq(t, TokenLen(t) + 1, Len(t)))

RECURSIVE split_sep(_, _)
\* str.split(sep) for a one-character separator: "a@b".split("@") = ["a", "b"],
\* "".split("@") = [""]
split_sep(s, sep) ==
    IF \A n \in 1..Len(s) : s[n] # sep THEN <<s>>
    ELSE LET n == CHOOSE n \in 1..Len(s) :
                    s[n] = sep /\ \A m \in 1..(n - 1) : s[m] # sep
         IN <<SubSeq(s, 1, n - 1)>> \o split_sep(SubSeq(s, n + 1, Len(s)), sep)

\* the commands of register_handlers (handlers.py:370-431), as written in
\* their @dp.command(...) decorators
Registrations ==
    { [command_name |-> <<"s", "t", "a", "t", "s">>, func |-> "handle_stats"],
      [command_name |-> <<"s", "t", "a", "r", "t">>, func |-> "handle_start"],
      [command_name |-> <<"h", "e", "l", "p">>, func |-> "handle_help"],
      [command_name |-> <<"s", "u", "p", "p", "o", "r", "t">>, func |-> "handle_support"],
      [command_name |-> <<"p", "i", "n", "g">>, func |-> "handle_ping"],
      [command_name |-> <<"v", "o", "t", "e", "b", "a", "n">>, func |-> "handle_voteban"] }

\* Dispatcher.command, lines 54-55: the registry key of a command name
command(command_name) == <<"/">> \o lstrip(command_name, {"/"})

command_handlers ==
    [key \in {command(r.command_name) : r \in Registrations} |->
        (CHOOSE r \in Registrations : command(r.command_name) = key).func]

\* @dp.on_new_chat_members and @dp.on_callback_query of register_handlers
new_chat_members_handler == "handle_new_member"
callback_query_handler == "handle_verification"
None == "None"

\* the texts of the updates: optional leading whitespace, a prefix, a word
\* and what follows it
Leads == {<<>>, <<" ">>, <<"\n", " ">>}
Prefixes == {<<>>, <<"/">>, <<"/", "/">>, <<"@">>}
Words ==
    { <<>>,
      <<"v", "o", "t", "e", "b", "a", "n">>,
      <<"V", "o", "t", "e", "b", "a", "n">>,
      <<"v", "o", "t", "e">>,
      <<"s", "t", "a", "r", "t">>,
      <<"S", "T", "A", "T", "S">>,
      <<"p", "i", "n", "g">>,
      <<"f", "o", "o">> }
Rests ==
    { <<>>,
      <<"@">>,
      <<"@", "B", "o", "t", "N", "a", "m", "e">>,
      <<"@", "B", "o", "t", "N", "a", "m", "e", " ", "e", "x", "t", "r", "a">>,
      <<" ", "e", "x", "t", "r", "a">>,
      <<"\n", "e", "x", "t", "r", "a">>,
      <<"x">>,
      <<" ", "/", "s", "t", "a", "r", "t">>,
      <<"@", "a", "@", "b", " ">> }
Texts == {l \o p \o w \o r : l \in Leads, p \in Prefixes, w \in Words, r \in Rests}

\* An update as process_update sees it:
\*   callback_query    the update has a "callback_query" payload
\*   new_chat_members  number of members listed by message.new_chat_members
\*   text              text of the message the Context wraps (context.py:33-48)
\*   chat_id           message.chat.id, 0 when absent
\*   language_code     from.language_code, "" when absent
Updates ==
    [callback_query : BOOLEAN, new_chat_members : 0..1, text : Texts,
     chat_id : {0, ChatId}, language_code : {"", "kk", "de"}]

\* context.py:48
ctx_text(update) == strip(update.text)

\* context.py:70-73
ctx_lang_code(update) ==
    IF update.language_code = "" THEN "en" ELSE update.language_code

\* message_formatter.py:12-183; DEFAULT_LANG of services/__init__.py:5
TRANSLATIONS == {"en", "kk"}
DEFAULT_LANG == "en"
target_lang(lang_code) == IF lang_code \in TRANSLATIONS THEN lang_code ELSE DEFAULT_LANG

CommandKeyWholeToken(text) == split(text)[1]

\* dispatcher.py:102
CommandKey(text) == split_sep(split(text)[1], "@")[1]

Default == [branch |-> "default", handler |-> None]

\* dispatcher.py:100-111
RouteCommand(update) ==
    LET text == ctx_text(update) IN
    IF text # <<>> /\ startswith(text, <<"/">>)
    THEN LET command_key == CommandKey(text) IN
         IF command_key \in DOMAIN command_handlers
         THEN [branch |-> "command", handler |-> command_handlers[command_key]]
         ELSE Default
    ELSE Default

RouteCommandFirst(update) ==
    IF RouteCommand(update) # Default THEN RouteCommand(update)
    ELSE IF update.callback_query /\ callback_query_handler # None
    THEN [branch |-> "callback_query", handler |-> callback_query_handler]
    ELSE IF update.new_chat_members > 0 /\ new_chat_members_handler # None
    THEN [branch |-> "new_chat_members", handler |-> new_chat_members_handler]
    ELSE Default

RouteFallbackHelp(update) ==
    IF update.callback_query /\ callback_query_handler # None
    THEN [branch |-> "callback_query", handler |-> callback_query_handler]
    ELSE IF update.new_chat_members > 0 /\ new_chat_members_handler # None
    THEN [branch |-> "new_chat_members", handler |-> new_chat_members_handler]
    ELSE IF ctx_text(update) # <<>>
    THEN [branch |-> "command", handler |-> "handle_help"]
    ELSE Default

\* dispatcher.py:79-114: the routing of process_update
Route(update) ==
    IF update.callback_query /\ callback_query_handler # None
    THEN [branch |-> "callback_query", handler |-> callback_query_handler]
    ELSE IF update.new_chat_members > 0 /\ new_chat_members_handler # None
    THEN [branch |-> "new_chat_members", handler |-> new_chat_members_handler]
    ELSE RouteCommand(update)

DispatchFrame == UNCHANGED <<voteVars, verVars, fails, jrun, brun, vrun, crun, trun, rrun>>

InitDispatch ==
    /\ VoteIdle
    /\ VerInit
    /\ fails = 0
    /\ jrun = IdleJoin
    /\ brun = IdleBatch
    /\ vrun = IdleVoteban
    /\ crun = IdleContext
    /\ trun = IdleTask
    /\ rrun = IdleReceiver
    /\ \E update \in Updates :
         drun = [IdleDispatch EXCEPT !.pc = "route", !.update = update]

\* process_update up to the call of the handler, or to the default return
process_update ==
    /\ drun.pc = "route"
    /\ LET r == Route(drun.update) IN
       drun' = IF r.branch = "default"
               THEN [drun EXCEPT !.pc = "done"]
               ELSE [drun EXCEPT !.pc = r.branch,
                                 !.invoked = Append(@, r.handler)]
    /\ DispatchFrame

\* the handler does its work and returns (lines 84-87, 94-97, 107, 111)
HandlerReturns ==
    /\ drun.pc \in {"callback_query", "new_chat_members", "command"}
    /\ drun' = [drun EXCEPT !.pc = "done",
                            !.calls = Append(@, [by |-> drun.invoked[1], call |-> "work",
                                                 text |-> "", lang |-> ""])]
    /\ DispatchFrame

\* handle_verification fails inside its try: handlers.py:362-368 answers the
\* callback "Verification failed." and swallows a failure of that answer
HandleVerificationExcept(answered) ==
    /\ drun.pc = "callback_query"
    /\ drun' = [drun EXCEPT !.pc = "done",
          !.calls = IF answered
                    THEN Append(@, [by |-> "handle_verification",
                                    call |-> "answer_callback_query",
                                    text |-> "Verification failed.", lang |-> ""])
                    ELSE @]
    /\ DispatchFrame

\* handle_new_member fails inside its try: handlers.py:106-109 replies
\* error_occurred (default language of get_translated_text) when the update
\* has a chat id; a reply that raises leaves the handler and is logged by
\* dispatcher.py:95-97
HandleNewMemberExcept(sent) ==
    /\ drun.pc = "new_chat_members"
    /\ sent => drun.update.chat_id # 0
    /\ drun' = [drun EXCEPT !.pc = "done",
          !.calls = IF sent
                    THEN Append(@, [by |-> "handle_new_member", call |-> "send_message",
                                    text |-> "error_occurred", lang |-> target_lang("kk")])
                    ELSE @,
          !.logged = ~sent /\ drun.update.chat_id # 0]
    /\ DispatchFrame

\* an exception leaves the command handler: dispatcher.py:108-109
CommandRaises ==
    /\ drun.pc = "command"
    /\ drun' = [drun EXCEPT !.pc = "except", !.logged = TRUE]
    /\ DispatchFrame

CommandExceptSilent(sent) ==
    /\ drun.pc = "except"
    /\ ~sent
    /\ drun' = [drun EXCEPT !.pc = "done"]
    /\ DispatchFrame

\* dispatcher.py:110 with Context.reply (context.py:80-86): the reply is sent
\* when the update has a chat id; a send that raises leaves process_update
CommandExcept(sent) ==
    /\ drun.pc = "except"
    /\ sent => drun.update.chat_id # 0
    /\ drun' = [drun EXCEPT !.pc = "done",
          !.calls = IF sent
                    THEN Append(@, [by |-> "process_update", call |-> "send_message",
                                    text |-> "error_occurred",
                                    lang |-> target_lang(ctx_lang_code(drun.update))])
                    ELSE @,
          !.raised = ~sent /\ drun.update.chat_id # 0]
    /\ DispatchFrame

DispatchNext ==
    \/ process_update
    \/ HandlerReturns
    \/ \E answered \in BOOLEAN : HandleVerificationExcept(answered)
    \/ \E sent \in BOOLEAN : HandleNewMemberExcept(sent)
    \/ CommandRaises
    \/ \E sent \in BOOLEAN : CommandExcept(sent)

SpecDispatch == InitDispatch /\ [][DispatchNext]_vars

\* ------------------------------------------------------------- batch
\* The records of a batch, by what their body is:
\*   unparseable  json.loads raises
\*   private      a message of a private chat
\*   timeout      a CHECK_TIMEOUT task
\*   update       any other Telegram update
RecordKinds == {"unparseable", "private", "timeout", "update"}

RECURSIVE SeqsUpTo(_, _)
SeqsUpTo(S, n) ==
    IF n = 0 THEN {<<>>}
    ELSE SeqsUpTo(S, n - 1) \cup
         {Append(q, x) : q \in {r \in SeqsUpTo(S, n - 1) : Len(r) = n - 1}, x \in S}

BatchFrame == UNCHANGED <<voteVars, verVars, fails, jrun, drun, vrun, crun, trun, rrun>>

InitBatch ==
    /\ VoteIdle
    /\ VerInit
    /\ fails = 0
    /\ jrun = IdleJoin
    /\ drun = IdleDispatch
    /\ vrun = IdleVoteban
    /\ crun = IdleContext
    /\ trun = IdleTask
    /\ rrun = IdleReceiver
    /\ \E batch \in SeqsUpTo(RecordKinds, MaxRecords) :
         brun = [IdleBatch EXCEPT !.pc = "loop", !.Records = batch, !.k = 1]

record == brun.Records[brun.k]

InLoop == brun.pc = "loop" /\ brun.k <= Len(brun.Records)

\* the body of the try returned: on to the next record
RecordDone ==
    brun' = [brun EXCEPT !.k = @ + 1, !.outcome = Append(@, "processed")]

RecordExceptAborts ==
    brun' = [brun EXCEPT !.pc = "done", !.outcome = Append(@, "failed"), !.raised = TRUE]

\* main.py:45-50: the except clause logs, the loop goes on
RecordExcept ==
    brun' = [brun EXCEPT !.k = @ + 1, !.outcome = Append(@, "failed")]

\* line 32: json.loads raises
RecordUnparseable ==
    /\ InLoop /\ record = "unparseable"
    /\ RecordExcept
    /\ BatchFrame

\* lines 34-38: a private message is answered by send_private_msg and
\* lambda_handler returns; a send that raises goes to the except clause
RecordPrivate(sent) ==
    /\ InLoop /\ record = "private"
    /\ IF sent
       THEN brun' = [brun EXCEPT !.pc = "done", !.outcome = Append(@, "returned")]
       ELSE RecordExcept
    /\ BatchFrame

\* lines 40-41: process_timeout_task catches what its calls raise
\* (handlers.py:44-60)
RecordTimeout ==
    /\ InLoop /\ record = "timeout"
    /\ RecordDone
    /\ BatchFrame

\* lines 42-43: process_update returns, or lets an exception out
RecordUpdate(raised) ==
    /\ InLoop /\ record = "update"
    /\ IF raised THEN RecordExcept ELSE RecordDone
    /\ BatchFrame

\* line 52: the loop is over
BatchCompleted ==
    /\ brun.pc = "loop" /\ brun.k > Len(brun.Records)
    /\ brun' = [brun EXCEPT !.pc = "done"]
    /\ BatchFrame

BatchNext ==
    \/ RecordUnparseable
    \/ \E sent \in BOOLEAN : RecordPrivate(sent)
    \/ RecordTimeout
    \/ \E raised \in BOOLEAN : RecordUpdate(raised)
    \/ BatchCompleted

SpecBatch == InitBatch /\ [][BatchNext]_vars

\* ------------------------------------------------------------- /voteban
\* A /voteban command as handle_voteban sees it:
\*   has_reply       the message is a reply (message.reply_to_message)
\*   target_user_id  reply_to_message.from.id, 0 when absent
\*   target_is_bot   reply_to_message.from.is_bot
\*   user_id         the sender of the command
\*   chat_id         message.chat.id, 0 when absent
\*   target_status   what get_chat_member reports for the target
\*   existing        the session stored for (chat, target) before the command
ExistingSessions ==
    {NoItem, [create_vote_session(7, 2) EXCEPT !.votes_against = <<3>>]}

VotebanUpdates ==
    [has_reply : BOOLEAN, target_user_id : 0..3, target_is_bot : BOOLEAN,
     user_id : 1..2, chat_id : {0, ChatId},
     target_status : {"member", "administrator", "creator"},
     existing : ExistingSessions]

\* the parameters TelegramClient.send_message takes besides chat_id and text
\* (telegram_client.py:22-28)
SendMessageParams == {"parse_mode", "reply_markup"}

\* Context.reply (context.py:80-86) hands its keyword arguments on to
\* send_message: a keyword send_message does not take raises TypeError at the
\* call, before any request is made
reply_raises(kwargs) == ~(kwargs \subseteq SendMessageParams)

\* Context.reply has no return statement
reply_result == None

\* ctx.vote_repo, the VoteRepository the handlers use
vote_repo == "VoteRepository"

InitVoteban ==
    /\ \E update \in VotebanUpdates :
         /\ vrun = [IdleVoteban EXCEPT !.pc = "checks", !.update = update]
         /\ item = update.existing
         /\ gen = IF update.existing.exists THEN 1 ELSE 0
         /\ created = IF update.existing.exists THEN 1 ELSE 0
    /\ stale = NoItem
    /\ tstatus = "member"
    /\ inv = [i \in Slots |-> IdleInv]
    /\ last = IdleInv
    /\ calls = 0
    /\ chose = [u \in Users |-> {}]
    /\ fails = 0
    /\ VerInit
    /\ jrun = IdleJoin /\ drun = IdleDispatch /\ brun = IdleBatch
    /\ crun = IdleContext
    /\ trun = IdleTask
    /\ rrun = IdleReceiver

VotebanFrame == UNCHANGED <<tstatus, runVars, chose, verVars, fails, jrun, drun, brun, crun, trun, rrun>>

RejectionNoSelf(update) ==
    IF ~update.has_reply THEN "voteban_usage"
    ELSE IF update.target_user_id = 0 THEN "voteban_usage"
    ELSE ""

\* handlers.py:435-451: the checks made before any call
Rejection(update) ==
    IF ~update.has_reply THEN "voteban_usage"
    ELSE IF update.target_user_id = 0 THEN "voteban_usage"
    ELSE IF update.target_user_id = update.user_id THEN "voteban_self"
    ELSE ""

\* lines 435-456
VotebanChecks ==
    /\ vrun.pc = "checks"
    /\ LET r == Rejection(vrun.update) IN
       vrun' = IF r # "" THEN [vrun EXCEPT !.pc = "reply", !.reply = r]
               ELSE IF vrun.update.chat_id = 0 THEN [vrun EXCEPT !.pc = "done"]
               ELSE [vrun EXCEPT !.pc = "read"]
    /\ UNCHANGED storeVars
    /\ VotebanFrame

\* lines 457-461: get_chat_member on the target
VotebanRead(ok) ==
    /\ vrun.pc = "read"
    /\ vrun' =
         IF ~ok THEN [vrun EXCEPT !.pc = "except"]
         ELSE LET read == [vrun EXCEPT
                    !.status = vrun.update.target_status,
                    !.calls = Append(@, [call |-> "get_chat_member",
                                         user_id |-> vrun.update.target_user_id,
                                         text |-> "", kwargs |-> {}])]
              IN IF vrun.update.target_status \in {"creator", "administrator"}
                 THEN [read EXCEPT !.pc = "reply", !.reply = "voteban_admin"]
                 ELSE [read EXCEPT !.pc = "send"]
    /\ UNCHANGED storeVars
    /\ VotebanFrame

\* the rejection replies of lines 436, 446, 451, 460 through Context.reply
VotebanReply(sent) ==
    /\ vrun.pc = "reply"
    /\ sent => vrun.update.chat_id # 0
    /\ vrun' =
         IF vrun.update.chat_id = 0 THEN [vrun EXCEPT !.pc = "done"]
         ELSE IF sent
         THEN [vrun EXCEPT !.pc = "done", !.did = @ \cup {"rejected"},
                   !.calls = Append(@, [call |-> "send_message", user_id |-> 0,
                                        text |-> vrun.reply, kwargs |-> {}])]
         ELSE [vrun EXCEPT !.pc = "except"]
    /\ UNCHANGED storeVars
    /\ VotebanFrame

\* lines 463-527: the vote message is built and handed to Context.reply with
\* reply_markup and reply_to_message_id, and the session is created when the
\* reply returned a message
VotebanSend ==
    /\ vrun.pc = "send"
    /\ LET kwargs == {"reply_markup", "reply_to_message_id"}
           sent_message == reply_result
           message_id == 9
       IN IF reply_raises(kwargs)
          THEN /\ vrun' = [vrun EXCEPT !.pc = "except", !.did = @ \cup {"vote_message"}]
               /\ UNCHANGED storeVars
          ELSE /\ vrun' = [vrun EXCEPT !.pc = "done", !.did = @ \cup {"vote_message"},
                     !.calls = Append(@, [call |-> "send_message",
                                          user_id |-> vrun.update.target_user_id,
                                          text |-> "voteban_initiated",
                                          kwargs |-> kwargs])]
               /\ IF vote_repo # None /\ sent_message # None
                  THEN /\ Write(create_vote_session(message_id, vrun.update.user_id))
                       /\ gen' = gen + 1
                       /\ created' = created + 1
                  ELSE UNCHANGED storeVars
    /\ VotebanFrame

\* lines 533-535: the except clause replies error_occurred; a reply that
\* raises leaves the handler
VotebanExcept(sent) ==
    /\ vrun.pc = "except"
    /\ vrun' = [vrun EXCEPT !.pc = "done", !.did = @ \cup {"except"},
          !.raised = ~sent,
          !.calls = IF sent
                    THEN Append(@, [call |-> "send_message", user_id |-> 0,
                                    text |-> "error_occurred", kwargs |-> {}])
                    ELSE @]
    /\ UNCHANGED storeVars
    /\ VotebanFrame

VotebanNext ==
    \/ VotebanChecks
    \/ \E ok \in BOOLEAN : VotebanRead(ok)
    \/ \E sent \in BOOLEAN : VotebanReply(sent)
    \/ VotebanSend
    \/ \E sent \in BOOLEAN : VotebanExcept(sent)

SpecVoteban == InitVoteban /\ [][VotebanNext]_vars

\* ------------------------------------------------------------- Context
\* An update as Context.__init__ reads it:
\*   callback_query  the update has a callback_query payload
\*   has_message     the message the Context wraps is there: update.message,
\*                   or callback_query.message for a callback
\*   chat            that message has no chat, a chat without id, or a chat with id
\*   has_from        the sender is there: message.from, or callback_query.from
\*   language_code   from.language_code, "" when absent
ContextUpdates ==
    [callback_query : BOOLEAN, has_message : BOOLEAN, chat : {"absent", "no_id", "id"},
     has_from : BOOLEAN, language_code : {"", "en", "kk", "de"}]

\* the values the environment variable DEFAULT_LANG is deployed with
\* (services/__init__.py:5)
DefaultLangs == {"en", "kk"}

\* context.py:33-45: message.get("chat", {}).get("id"), 0 standing for None
ContextChatId(update) ==
    IF update.has_message /\ update.chat = "id" THEN ChatId ELSE 0

\* context.py:70-73: user_data.get("language_code", "en")
ContextLangCode(update) ==
    IF update.has_from /\ update.language_code # "" THEN update.language_code ELSE "en"

\* message_formatter.py:183
get_translated_lang(lang_code, default_lang) ==
    IF lang_code \in TRANSLATIONS THEN lang_code ELSE default_lang

ContextFrame == UNCHANGED <<voteVars, verVars, fails, jrun, drun, brun, vrun, trun, rrun>>

InitContext ==
    /\ VoteIdle
    /\ VerInit
    /\ fails = 0
    /\ jrun = IdleJoin /\ drun = IdleDispatch /\ brun = IdleBatch
    /\ vrun = IdleVoteban
    /\ trun = IdleTask
    /\ rrun = IdleReceiver
    /\ \E update \in ContextUpdates, default_lang \in DefaultLangs :
         crun = [IdleContext EXCEPT !.pc = "init", !.update = update,
                                    !.default_lang = default_lang]

\* Context.__init__, context.py:20-55
ContextInit ==
    /\ crun.pc = "init"
    /\ crun' = [crun EXCEPT !.pc = "ready",
                            !.chat_id = ContextChatId(crun.update),
                            !.lang_code = ContextLangCode(crun.update)]
    /\ ContextFrame

ContextReplyUnguarded(sent) ==
    /\ crun.pc = "ready"
    /\ sent => crun.chat_id # 0
    /\ crun' = IF sent
               THEN [crun EXCEPT !.pc = "done",
                       !.calls = Append(@, [call |-> "send_message", chat_id |-> crun.chat_id,
                            lang |-> get_translated_lang(crun.lang_code, crun.default_lang)])]
               ELSE [crun EXCEPT !.pc = "done", !.raised = TRUE]
    /\ ContextFrame

\* ctx.reply(get_translated_text(key, lang_code=ctx.lang_code)), context.py:80-86:
\* send_message is called when chat_id is truthy, and what it raises is not caught
ContextReply(sent) ==
    /\ crun.pc = "ready"
    /\ sent => crun.chat_id # 0
    /\ crun' = IF crun.chat_id = 0 THEN [crun EXCEPT !.pc = "done"]
               ELSE IF sent
               THEN [crun EXCEPT !.pc = "done",
                       !.calls = Append(@, [call |-> "send_message", chat_id |-> crun.chat_id,
                            lang |-> get_translated_lang(crun.lang_code, crun.default_lang)])]
               ELSE [crun EXCEPT !.pc = "done", !.raised = TRUE]
    /\ ContextFrame

ContextNext ==
    \/ ContextInit
    \/ \E sent \in BOOLEAN : ContextReply(sent)

SpecContext == InitContext /\ [][ContextNext]_vars

\* ------------------------------------------------------------- timeout task
\* The body of a CHECK_TIMEOUT record as process_timeout_task reads it; 0
\* stands for a field that is absent (task_data.get gives None), and
\* status / can_send for what get_chat_member reports for the user.
TaskBodies ==
    [chat_id : {0, ChatId}, user_id : 0..2, message_id : 0..2,
     status : {"member", "restricted", "left", "kicked"}, can_send : BOOLEAN]

MissingChatOnly(task_data) == task_data.chat_id = 0

\* handlers.py:41: chat_id is None or user_id is None or message_id is None
Missing(task_data) ==
    task_data.chat_id = 0 \/ task_data.user_id = 0 \/ task_data.message_id = 0

TaskFrame == UNCHANGED <<voteVars, verVars, fails, jrun, drun, brun, vrun, crun, rrun>>

InitTask ==
    /\ VoteIdle
    /\ VerInit
    /\ fails = 0
    /\ jrun = IdleJoin /\ drun = IdleDispatch /\ brun = IdleBatch
    /\ vrun = IdleVoteban /\ crun = IdleContext
    /\ rrun = IdleReceiver
    /\ \E task_data \in TaskBodies :
         trun = [IdleTask EXCEPT !.pc = "check", !.task_data = task_data]

TaskCall(name, id) == Append(trun.calls, [call |-> name, chat_id |-> trun.task_data.chat_id, id |-> id])

\* lines 38-43: a body without chat_id, user_id or message_id is logged and dropped
TaskCheck ==
    /\ trun.pc = "check"
    /\ trun' = [trun EXCEPT !.pc = IF Missing(trun.task_data) THEN "done" ELSE "read"]
    /\ TaskFrame

\* lines 45-51: get_chat_member, then the decision to leave the member alone;
\* what the call raises is caught at line 59
TaskRead(ok) ==
    /\ trun.pc = "read"
    /\ trun' = IF ~ok THEN [trun EXCEPT !.pc = "done"]
               ELSE [trun EXCEPT
                       !.calls = TaskCall("get_chat_member", trun.task_data.user_id),
                       !.pc = IF TimeoutIgnores(trun.task_data.status,
                                   CanSendOf([status |-> trun.task_data.status,
                                              restricted |-> trun.task_data.status = "restricted",
                                              can_send_messages |-> trun.task_data.can_send]))
                              THEN "done" ELSE "kick"]
    /\ TaskFrame

\* line 53: the kick
TaskKick(ok) ==
    /\ trun.pc = "kick"
    /\ trun' = IF ~ok THEN [trun EXCEPT !.pc = "done"]
               ELSE [trun EXCEPT
                       !.calls = TaskCall("kick_chat_member", trun.task_data.user_id),
                       !.pc = "delete"]
    /\ TaskFrame

\* lines 54-58: best-effort delete of the challenge message
TaskDelete(ok) ==
    /\ trun.pc = "delete"
    /\ trun' = [trun EXCEPT !.pc = "done",
                  !.calls = IF ok THEN TaskCall("delete_message", trun.task_data.message_id)
                            ELSE @]
    /\ TaskFrame

TaskNext ==
    \/ TaskCheck
    \/ \E ok \in BOOLEAN : TaskRead(ok)
    \/ \E ok \in BOOLEAN : TaskKick(ok)
    \/ \E ok \in BOOLEAN : TaskDelete(ok)

SpecTask == InitTask /\ [][TaskNext]_vars

\* ------------------------------------------------------------- receiver
\* services.WEBHOOK_SECRET_TOKEN of the deployment
WEBHOOK_SECRET_TOKEN == <<"s", "3", "c">>

\* what the secret-token header of a request carries; <<>> for no header
ReceivedTokens == {<<>>, <<"s", "3", "c">>, <<"s", "3">>, <<"S", "3", "c">>, <<"s", "3", "c", "x">>}

\* text and caption of the message of an update; <<>> when absent
ReceiverTexts ==
    {<<>>, <<"/", "s", "t", "a", "r", "t">>, <<" ", "/", "s", "t", "a", "r", "t">>,
     <<"h", "i">>, <<"h", "i", " ", "/", "s", "t", "a", "r", "t">>}

\* A webhook request as the receiver reads it:
\*   token             the secret-token header
\*   body              the request has no body, a body that is not JSON, or an update
\*   callback_query    the update has the key callback_query
\*   message           the update has the key message
\*   new_chat_members  the message has the key new_chat_members
\*   text, caption     of the message
Requests ==
    [token : ReceivedTokens, body : {"missing", "not_json", "update"},
     callback_query : BOOLEAN, message : BOOLEAN, new_chat_members : BOOLEAN,
     text : ReceiverTexts, caption : {<<>>, <<"/", "s", "t", "a", "r", "t">>, <<"h", "i">>}]

VerifyAnyToken(event) == event.token # <<>>

\* api_gateway_utils.py:12-33
verify_webhook_secret_token(event) ==
    IF event.token = <<>> THEN FALSE
    ELSE event.token = WEBHOOK_SECRET_TOKEN

\* api_gateway_utils.py:36-57: raises ValueError for a missing or unparseable body
parse_raises(event) == event.body # "update"

IsRelevantUnstripped(body) ==
    IF body.callback_query THEN TRUE
    ELSE IF body.message
    THEN LET text_content == IF body.text # <<>> THEN body.text
                             ELSE IF body.caption # <<>> THEN body.caption ELSE <<>>
         IN body.new_chat_members \/ startswith(text_content, <<"/">>)
    ELSE FALSE

\* api_gateway_utils.py:73-91
is_event_relevant_to_bot(body) ==
    IF body.callback_query THEN TRUE
    ELSE IF body.message
    THEN LET text_content == IF body.text # <<>> THEN body.text
                             ELSE IF body.caption # <<>> THEN body.caption ELSE <<>>
         IN body.new_chat_members \/ startswith(strip(text_content), <<"/">>)
    ELSE FALSE

\* api_gateway_utils.py:60-70
create_response(status_code, message) == [statusCode |-> status_code, body |-> message]

ReceiverFrame == UNCHANGED <<voteVars, verVars, fails, jrun, drun, brun, vrun, crun, trun>>

InitReceiver ==
    /\ VoteIdle
    /\ VerInit
    /\ fails = 0
    /\ jrun = IdleJoin /\ drun = IdleDispatch /\ brun = IdleBatch
    /\ vrun = IdleVoteban /\ crun = IdleContext /\ trun = IdleTask
    /\ \E event \in Requests :
         rrun = [IdleReceiver EXCEPT !.pc = "verify", !.event = event]

\* receiver/main.py:34-37
ReceiverVerify ==
    /\ rrun.pc = "verify"
    /\ rrun' = IF ~verify_webhook_secret_token(rrun.event)
               THEN [rrun EXCEPT !.pc = "done",
                                 !.response = create_response(200, "Unauthorized")]
               ELSE [rrun EXCEPT !.pc = "parse"]
    /\ ReceiverFrame

\* lines 39-45
ReceiverParse ==
    /\ rrun.pc = "parse"
    /\ rrun' = IF parse_raises(rrun.event)
               THEN [rrun EXCEPT !.pc = "done",
                                 !.response = create_response(200, "Invalid request")]
               ELSE [rrun EXCEPT !.pc = "relevant"]
    /\ ReceiverFrame

\* lines 47-50
ReceiverRelevant ==
    /\ rrun.pc = "relevant"
    /\ rrun' = IF ~is_event_relevant_to_bot(rrun.event)
               THEN [rrun EXCEPT !.pc = "done",
                        !.response = create_response(200, "Event is not relevant to the bot")]
               ELSE [rrun EXCEPT !.pc = "send"]
    /\ ReceiverFrame

\* lines 52-60: send_telegram_update; what it raises is logged by the outer
\* except, and the handler answers 200 either way
ReceiverSend(ok) ==
    /\ rrun.pc = "send"
    /\ rrun' = [rrun EXCEPT !.pc = "done",
                  !.queue = IF ok THEN Append(@, rrun.event) ELSE @,
                  !.logged = ~ok,
                  !.response = create_response(200, "Webhook received")]
    /\ ReceiverFrame

ReceiverNext ==
    \/ ReceiverVerify
    \/ ReceiverParse
    \/ ReceiverRelevant
    \/ \E ok \in BOOLEAN : ReceiverSend(ok)

SpecReceiver == InitReceiver /\ [][ReceiverNext]_vars

\* ------------------------------------------------------------- one update, twice
\* The JSON of one Telegram update, read by the receiver's filter and by the
\* worker's dispatcher:
\*   callback_query    the update has the key callback_query
\*   message           the update has the key message
\*   new_chat_members  the message has no such key, an empty list, or one member
\*   text, caption     of the message, <<>> when absent
Bodies ==
    [callback_query : BOOLEAN, message : BOOLEAN,
     new_chat_members : {"absent", "empty", "one"},
     text : Texts, caption : {<<>>, <<"/", "s", "t", "a", "r", "t">>, <<"h", "i">>}]

\* the request the receiver gets for the update, with the configured token;
\* is_event_relevant_to_bot tests the presence of the key new_chat_members
\* (api_gateway_utils.py:84)
event_of(body) ==
    [token |-> WEBHOOK_SECRET_TOKEN, body |-> "update",
     callback_query |-> body.callback_query, message |-> body.message,
     new_chat_members |-> body.message /\ body.new_chat_members # "absent",
     text |-> IF body.message THEN body.text ELSE <<>>,
     caption |-> IF body.message THEN body.caption ELSE <<>>]

\* the update as process_update and the Context read it: update.get("message",
\* {}), the truth value of message.get("new_chat_members") (dispatcher.py:89-90)
\* and message.get("text", "") (context.py:48); a caption is not read
update_of(body) ==
    [callback_query |-> body.callback_query,
     new_chat_members |-> IF body.message /\ body.new_chat_members = "one" THEN 1 ELSE 0,
     text |-> IF body.message /\ ~body.callback_query THEN body.text ELSE <<>>,
     chat_id |-> ChatId, language_code |-> ""]

InitFilter ==
    /\ VoteIdle
    /\ VerInit
    /\ fails = 0
    /\ jrun = IdleJoin /\ brun = IdleBatch
    /\ vrun = IdleVoteban /\ crun = IdleContext /\ trun = IdleTask
    /\ \E body \in Bodies :
         /\ rrun = [IdleReceiver EXCEPT !.pc = "relevant", !.event = event_of(body)]
         /\ drun = [IdleDispatch EXCEPT !.pc = "route", !.update = update_of(body)]

FilterNext ==
    \/ ReceiverRelevant
    \/ \E ok \in BOOLEAN : ReceiverSend(ok)
    \/ process_update
    \/ HandlerReturns

\* the receiver's filter and the worker's routing applied to the same update
SpecFilter == InitFilter /\ [][FilterNext]_vars

\* C15: a deleteMessage that fails aborts nothing.  Unless another call of the
\* invocation raises: the verify flow still sends the welcome and counts the
\* member, the timeout flow still returns normally after its kick, the ban and
\* the forgive flow still delete the session record.
C15_DeleteIsBestEffort ==
    /\ \A r \in WRecords :
         (r.pc = "done" /\ "delete_msg_failed" \in r.did /\ "except" \notin r.did) =>
           /\ r.kind = "verify" => {"restrict", "answer", "welcome", "count"} \subseteq r.did
           /\ r.kind = "timeout" => (r.kicks = 1 /\ "kick" \in r.did)
    /\ \A r \in Records :
         (r.pc = "done" /\ "delete_msg_failed" \in r.did /\ ~Failed(r)) =>
           /\ "delete_session" \in r.did
           /\ {"announce_ban", "announce_forgive"} \cap r.did # {}

\* the challenge message could not be deleted and the member was welcomed
C15_Witness ==
    /\ wlast.kind = "verify"
    /\ "delete_msg_failed" \in wlast.did
    /\ {"welcome", "count"} \subseteq wlast.did
    /\ \E m \in msgs : m.id = wlast.msg
    /\ stats.verified_users = 1

\* what the claims call the first whitespace-delimited token of a text that
\* is not all whitespace: it starts at the first character that is not
\* whitespace and ends before the next whitespace
FirstToken(text) ==
    LET i == CHOOSE i \in 1..Len(text) :
                 text[i] \notin Whitespace /\ \A m \in 1..(i - 1) : text[m] \in Whitespace
        j == CHOOSE j \in i..Len(text) :
                 /\ \A m \in i..j : text[m] \notin Whitespace
                 /\ j < Len(text) => text[j + 1] \in Whitespace
    IN SubSeq(text, i, j)

Blank(text) == \A m \in 1..Len(text) : text[m] \in Whitespace

\* key is tok with any "@..." suffix stripped
IsStripped(tok, key) ==
    /\ Len(key) <= Len(tok)
    /\ key = SubSeq(tok, 1, Len(key))
    /\ \A m \in 1..Len(key) : key[m] # "@"
    /\ Len(key) < Len(tok) => tok[Len(key) + 1] = "@"

RegisteredKeys ==
    { <<"/", "s", "t", "a", "t", "s">>, <<"/", "s", "t", "a", "r", "t">>,
      <<"/", "h", "e", "l", "p">>, <<"/", "s", "u", "p", "p", "o", "r", "t">>,
      <<"/", "p", "i", "n", "g">>, <<"/", "v", "o", "t", "e", "b", "a", "n">> }

RegisteredFor(key) ==
    CHOOSE r \in Registrations : <<"/">> \o r.command_name = key

\* the registered commands a text names
CommandsOf(text) ==
    IF Blank(text) THEN {}
    ELSE {key \in RegisteredKeys : IsStripped(FirstToken(text), key)}

ExpectedHandlers(update) ==
    IF update.callback_query THEN {"handle_verification"}
    ELSE IF update.new_chat_members > 0 THEN {"handle_new_member"}
    ELSE {RegisteredFor(key).func : key \in CommandsOf(update.text)}

Routed == drun.pc \notin {"idle", "route"}

InvokedSet == {drun.invoked[n] : n \in 1..Len(drun.invoked)}

VotebanBotNameExtra ==
    <<"/", "v", "o", "t", "e", "b", "a", "n", "@", "B", "o", "t", "N", "a", "m", "e",
      " ", "e", "x", "t", "r", "a">>

\* C16: process_update invokes at most one handler for an update, and it is
\* the one the precedence callback query > new chat members > command selects;
\* an update with a callback payload and a command-like text invokes the
\* callback handler only.
C16_OneHandlerByPrecedence ==
    /\ Len(drun.invoked) <= 1
    /\ Routed => InvokedSet = ExpectedHandlers(drun.update)
    /\ (Routed /\ drun.update.callback_query /\ CommandsOf(drun.update.text) # {}) =>
          drun.invoked = <<"handle_verification">>

\* a callback update whose message text is "/voteban@BotName extra" went to
\* the callback handler
C16_Witness ==
    /\ drun.pc = "done"
    /\ drun.update.callback_query
    /\ drun.update.new_chat_members > 0
    /\ drun.update.text = VotebanBotNameExtra
    /\ drun.invoked = <<"handle_verification">>

\* C17: an update with no callback payload, no announced members and no text
\* whose first token names a registered command invokes no handler, makes no
\* gateway or store call and raises nothing.
C17_NoMatchIsNoOp ==
    (/\ Routed
     /\ ~drun.update.callback_query
     /\ drun.update.new_chat_members = 0
     /\ CommandsOf(drun.update.text) = {}) =>
        /\ drun.pc = "done"
        /\ drun.invoked = <<>>
        /\ drun.calls = <<>>
        /\ ~drun.raised /\ ~drun.logged
        /\ item = NoItem /\ msgs = {} /\ tasks = {}
        /\ stats = [total_joins |-> 0, verified_users |-> 0]

\* the text "/foo extra" of a plain message was dropped
C17_Witness ==
    /\ drun.pc = "done"
    /\ ~drun.update.callback_query
    /\ drun.update.new_chat_members = 0
    /\ drun.update.text = <<"/", "f", "o", "o", " ", "e", "x", "t", "r", "a">>
    /\ drun.invoked = <<>>
    /\ drun.calls = <<>>

PlainText == ~drun.update.callback_query /\ drun.update.new_chat_members = 0

\* C18: the command key is the first whitespace-delimited token of the text
\* without its "@botname" suffix, compared case-sensitively with the registered
\* keys: "/voteban@BotName extra" has key /voteban and reaches handle_voteban,
\* "/Voteban" reaches nothing, and a text whose first token has no leading
\* slash reaches no command.
C18_CommandKey ==
    /\ CommandKey(strip(VotebanBotNameExtra)) = <<"/", "v", "o", "t", "e", "b", "a", "n">>
    /\ (Routed /\ PlainText) =>
         /\ \A key \in RegisteredKeys :
               (command_handlers[key] \in InvokedSet) <=> (key \in CommandsOf(drun.update.text))
         /\ drun.update.text = VotebanBotNameExtra => drun.invoked = <<"handle_voteban">>
         /\ drun.update.text = <<"v", "o", "t", "e", "b", "a", "n">> => drun.invoked = <<>>
         /\ drun.update.text = <<"/", "V", "o", "t", "e", "b", "a", "n">> => drun.invoked = <<>>
         /\ (~Blank(drun.update.text) /\ FirstToken(drun.update.text)[1] # "/")
               => drun.invoked = <<>>

\* "/voteban@BotName extra" in a plain message reached handle_voteban
C18_Witness ==
    /\ drun.pc = "done"
    /\ PlainText
    /\ drun.update.text = VotebanBotNameExtra
    /\ drun.invoked = <<"handle_voteban">>
    /\ drun.calls # <<>>

CommandFuncs == {r.func : r \in Registrations}

\* an exception left the command handler
CommandFailed ==
    Routed /\ drun.pc # "command" /\ drun.logged /\ InvokedSet \subseteq CommandFuncs
           /\ InvokedSet # {}

ErrorReplies ==
    {drun.calls[n] : n \in {m \in 1..Len(drun.calls) :
                               /\ drun.calls[m].call = "send_message"
                               /\ drun.calls[m].text = "error_occurred"}}

\* the language the reply to the user of an update is written in
UserLang(update) == IF update.language_code = "kk" THEN "kk" ELSE "en"

C20_FailureIsolated ==
    /\ ~brun.raised
    /\ Len(brun.outcome) <= Len(brun.Records)
    /\ brun.pc = "loop" => brun.k = Len(brun.outcome) + 1
    /\ brun.pc = "done" =>
         \A n \in 1..Len(brun.outcome) :
            (brun.outcome[n] = "failed" /\ n < Len(brun.Records)) =>
               Len(brun.outcome) > n
    /\ (brun.pc = "done" /\ Len(brun.outcome) < Len(brun.Records)) =>
         /\ brun.outcome # <<>>
         /\ brun.outcome[Len(brun.outcome)] = "returned"
    /\ \A n \in 1..Len(brun.outcome) :
         brun.Records[n] = "unparseable" => brun.outcome[n] = "failed"

\* a batch whose first record cannot be parsed and whose second record makes
\* process_update raise: the third record was still processed
C20_Witness ==
    /\ brun.pc = "done"
    /\ brun.Records = <<"unparseable", "update", "timeout">>
    /\ brun.outcome = <<"failed", "failed", "processed">>

VotebanRan == vrun.pc # "idle"

\* what the claims call a rejected /voteban: not a reply to a message (or to a
\* message without a sender), aimed at the initiator, or aimed at an
\* administrator or the creator of the chat
VotebanRejected(update) ==
    \/ ~update.has_reply
    \/ update.target_user_id = 0
    \/ update.target_user_id = update.user_id
    \/ update.target_status \in {"administrator", "creator"}

VotebanSendCalls ==
    {vrun.calls[n] : n \in {m \in 1..Len(vrun.calls) : vrun.calls[m].call = "send_message"}}

\* C21: a /voteban that is not a reply, that targets its initiator or that
\* targets an administrator or the creator only sends a reply: no vote message
\* is built or sent, no session is created and the session stored for
\* (chat, target) stays as it was.
C21_RejectionIsPureReply ==
    (VotebanRan /\ VotebanRejected(vrun.update)) =>
       /\ "vote_message" \notin vrun.did
       /\ item = vrun.update.existing /\ created = (IF vrun.update.existing.exists THEN 1 ELSE 0)
       /\ \A c \in VotebanSendCalls :
             c.kwargs = {} /\ c.text \in {"voteban_usage", "voteban_self", "voteban_admin",
                                          "error_occurred"}
       /\ (vrun.pc = "done" /\ "except" \notin vrun.did /\ vrun.update.chat_id # 0) =>
             /\ Cardinality(VotebanSendCalls) = 1
             /\ Len(vrun.calls) <= 2
             /\ \A c \in VotebanSendCalls :
                   c.text = IF ~vrun.update.has_reply \/ vrun.update.target_user_id = 0
                            THEN "voteban_usage"
                            ELSE IF vrun.update.target_user_id = vrun.update.user_id
                            THEN "voteban_self" ELSE "voteban_admin"

\* user 1 asked for a vote on themselves while a session of theirs was stored:
\* one voteban_self reply, the session untouched
C21_Witness ==
    /\ vrun.pc = "done"
    /\ vrun.update.has_reply
    /\ vrun.update.target_user_id = 1 /\ vrun.update.user_id = 1
    /\ vrun.update.existing.exists
    /\ item = vrun.update.existing
    /\ vrun.calls = <<[call |-> "send_message", user_id |-> 0, text |-> "voteban_self",
                       kwargs |-> {}]>>

VotebanOnBot ==
    /\ VotebanRan
    /\ vrun.update.has_reply
    /\ vrun.update.target_user_id # 0
    /\ vrun.update.target_is_bot

VotebanAccepted(update) ==
    /\ ~VotebanRejected(update)
    /\ ~update.target_is_bot
    /\ update.chat_id # 0

\* C23: an accepted /voteban sends the vote message, whose buttons carry the
\* target's user id, and creates the session of (chat, target) with votes_for
\* holding exactly the initiator and votes_against empty, so that the
\* initiator's own vote callback finds them already voted.
C23_AcceptedCreatesSession ==
    (/\ VotebanRan
     /\ VotebanAccepted(vrun.update)
     /\ vrun.pc = "done"
     /\ vrun.status # "") =>
       /\ \E c \in VotebanSendCalls :
             c.text = "voteban_initiated" /\ c.user_id = vrun.update.target_user_id
       /\ item.exists
       /\ item.votes_for = <<vrun.update.user_id>>
       /\ item.votes_against = <<>>
       /\ AlreadyVoted(get_vote_session(item), vrun.update.user_id)

\* C24: Context.reply does nothing when the update gave no chat id (no
\* message, no chat, a chat without id, with or without a sender): no gateway
\* call is made and nothing is raised, by the constructor or by reply.
C24_ReplyWithoutChatIsNoOp ==
    (crun.pc \in {"ready", "done"}
       /\ (~crun.update.has_message \/ crun.update.chat # "id")) =>
          /\ crun.chat_id = 0
          /\ crun.calls = <<>>
          /\ ~crun.raised

\* a callback update with neither message nor sender went through reply
C24_Witness ==
    /\ crun.pc = "done"
    /\ crun.update.callback_query
    /\ ~crun.update.has_message /\ ~crun.update.has_from
    /\ crun.calls = <<>>
    /\ ~crun.raised

\* C25: a localized reply is written in the user's profile language when that
\* language is supported, and in the configured DEFAULT_LANG when the profile
\* language is absent or unsupported.
C25_ReplyLanguage ==
    \A n \in 1..Len(crun.calls) :
       crun.calls[n].lang =
          IF crun.update.has_from /\ crun.update.language_code \in {"en", "kk"}
          THEN crun.update.language_code
          ELSE crun.default_lang

\* C26: a CHECK_TIMEOUT task without chat_id, user_id or message_id is
\* dropped: the handler reads no status, kicks nobody, deletes nothing and
\* raises nothing.
C26_IncompleteTaskDropped ==
    (trun.pc # "idle"
       /\ (trun.task_data.chat_id = 0 \/ trun.task_data.user_id = 0
              \/ trun.task_data.message_id = 0)) =>
          /\ trun.pc \in {"check", "done"}
          /\ trun.calls = <<>>
          /\ ~trun.raised

\* a task for a muted user, without message_id, was dropped
C26_Witness ==
    /\ trun.pc = "done"
    /\ trun.task_data.chat_id = ChatId /\ trun.task_data.user_id = 1
    /\ trun.task_data.message_id = 0
    /\ trun.task_data.status = "restricted" /\ ~trun.task_data.can_send
    /\ trun.calls = <<>>

\* C27: a kick that completed, by the timeout handler or by the ban
\* resolution of a vote, leaves the member out of the chat and not banned:
\* the platform status is never "kicked", so the member can join again.
C27_KickIsNotABan ==
    /\ \A u \in Cands : trail[u].kicked => mstatus[u] # "kicked"
    /\ (\E i \in Slots : "kick" \in inv[i].did) \/ "kick" \in last.did => tstatus # "kicked"

\* the first character of a text that is not whitespace is a slash
SlashText(text) == ~Blank(text) /\ FirstToken(text)[1] = "/"

\* what the claim calls relevant to the bot
RelevantUpdate(event) ==
    \/ event.callback_query
    \/ event.message /\ (event.new_chat_members \/ SlashText(event.text)
                             \/ SlashText(event.caption))

\* C28: the receiver enqueues an update only when the request carries the
\* configured secret token and the update is a callback query, announces new
\* members or has a text or caption starting with a slash; a request without
\* the token or with another one, without a parseable body, or with any other
\* update enqueues nothing; and every response has status 200.
C28_EnqueueOnlyVerifiedRelevant ==
    /\ rrun.queue # <<>> =>
          /\ rrun.event.token = <<"s", "3", "c">>
          /\ rrun.event.body = "update"
          /\ RelevantUpdate(rrun.event)
          /\ rrun.queue = <<rrun.event>>
    /\ rrun.pc = "done" =>
          /\ rrun.response.statusCode = 200
          /\ (rrun.event.token # <<"s", "3", "c">> \/ rrun.event.body # "update"
                 \/ ~RelevantUpdate(rrun.event)) => rrun.queue = <<>>

\* a request with the right token and a message "/start" was enqueued and
\* answered 200
C28_Witness ==
    /\ rrun.pc = "done"
    /\ rrun.event.token = WEBHOOK_SECRET_TOKEN
    /\ ~rrun.event.callback_query /\ ~rrun.event.new_chat_members
    /\ rrun.event.text = <<"/", "s", "t", "a", "r", "t">>
    /\ rrun.queue = <<rrun.event>>
    /\ rrun.response.statusCode = 200

\* the step in which the read of the session or the kick of a ban resolution
\* raises
KickFails(i) == inv[i].pc = "ban_kick" /\ inv'[i].pc = "idle"

BanEffects == {"announce_ban", "delete_msg", "delete_msg_failed", "delete_session"}

\* C29: in the ban resolution the kick comes first: an invocation announces
\* the ban, deletes the vote message or deletes the session only after its
\* kick has succeeded, and the step in which the read of the session or the
\* kick raises leaves the stored record as it is.
C29_KickFailureKeepsSession ==
    /\ [](\A r \in Records :
            /\ ("announce_ban" \in r.did \/ r.pc \in {"ban_send", "ban_delsess"})
                  => "kick" \in r.did
            /\ ("ban_failed" \in r.did /\ "kick" \notin r.did)
                  => r.did \cap BanEffects = {})
    /\ [][\A i \in Slots :
            KickFails(i) =>
               /\ item' = item /\ stale' = stale /\ gen' = gen
               /\ tstatus' = tstatus
               /\ last'.did \cap (BanEffects \cup {"kick"}) = {}]_vars

\* the kick of a ban resolution failed: the session, with its votes at the
\* threshold, is still stored
C29_Witness ==
    /\ "ban_failed" \in last.did
    /\ "kick" \notin last.did
    /\ item.exists
    /\ Len(item.votes_for) >= VOTEBAN_THRESHOLD
    /\ tstatus = "member"

\* no vote callback is being handled
Quiescent == \A i \in Slots : inv[i].pc = "idle"

AtThreshold(session) ==
    /\ session.exists
    /\ \/ Len(session.votes_for) >= VOTEBAN_THRESHOLD
       \/ Len(session.votes_against) >= VOTEBAN_FORGIVE_THRESHOLD

\* C30: a session whose votes reached the ban or the forgive threshold is
\* resolved and deleted by the invocation that recorded the vote: whenever no
\* invocation is in flight, the stored session is below both thresholds.
C30_ThresholdSessionResolved == Quiescent => ~AtThreshold(item)

\* C31: the vote callbacks recorded on one stored session resolve it at most
\* one way: no two of them, under any interleaving, announce the ban of the
\* target and its forgiveness.
C31_OneTerminalResolution ==
    \A r1, r2 \in Records :
      (r1.sess # 0 /\ r1.sess = r2.sess /\ "announce_ban" \in r1.did)
         => "announce_forgive" \notin r2.did

\* the record of invocation i after a step of it
After(i) == IF inv'[i].pc = "idle" THEN last' ELSE inv'[i]

\* C32: the update of a vote callback that finds no session record under the
\* key of its (chat, target) writes nothing, records no vote, and the
\* invocation goes on to no kick and no announcement.
C32_NoSessionNoVote ==
    [][\A i \in Slots :
         (inv[i].pc = "update" /\ ~item.exists /\ inv'[i] # inv[i]) =>
            /\ item' = item
            /\ "vote_recorded" \notin After(i).did
            /\ After(i).pc \notin {"ban_kick", "fg_send"}]_vars

LastEdit == "edit" \in last.did /\ item.exists /\ last.sess = gen

\* C34: when no vote callback is in flight and the record is still stored, the
\* counts written by the last edit of the vote message are the sizes of the
\* stored votes_for and votes_against.
C34_LastEditShowsStoredCounts ==
    (Quiescent /\ LastEdit) =>
        /\ last.votes_for = Len(item.votes_for)
        /\ last.votes_against = Len(item.votes_against)

\* the challenges on record for user u: the challenge messages on screen and
\* the ones named by the enqueued tasks
ChallengesOf(u) ==
    {m.id : m \in {c \in msgs : c.user = u}}
       \cup {t.message_id : t \in {q \in tasks : q.user_id = u}}

\* the timeout call r runs a task of an earlier join than the user's latest
StaleTask(r) == \E id \in ChallengesOf(r.user) : id > r.msg

\* C35: the kick of a timeout call is made for the task of the user's most
\* recent join: a task enqueued for an earlier join never kicks the user
\* during the challenge of a later one.
C35_StaleTaskNeverKicks ==
    [][\A i \in Slots :
         (winv[i].pc = "t_kick" /\ winv'[i].pc = "t_delete") => ~StaleTask(winv[i])]_vars

\* C36: a join handler that has finished, normally or through its except
\* clause, has enqueued a CHECK_TIMEOUT task, naming the challenge it sent, for
\* the member it muted.
C36_MutedMemberHasTask ==
    (wlast.kind = "join" /\ "restrict" \in wlast.did) =>
        \E t \in tasks : t.user_id = wlast.user /\ t.message_id = wlast.msg

\* C37: when lambda_handler has ended, every record of the batch has been
\* taken: a private-chat record is answered and the records after it are
\* handled like any others.
C37_EveryRecordProcessed ==
    brun.pc = "done" => Len(brun.outcome) = Len(brun.Records)

\* process_update has called a handler for the update
Handled == drun.invoked # <<>>

\* C38: an update for which process_update calls a handler (the callback
\* handler, the new-members handler or a registered command) is relevant to
\* is_event_relevant_to_bot: the receiver does not answer it with "not
\* relevant", it goes on to enqueue it.
C38_FilterAdmitsRoutedUpdates ==
    Handled =>
       /\ is_event_relevant_to_bot(rrun.event)
       /\ rrun.pc # "relevant" =>
             /\ rrun.pc \in {"send", "done"}
             /\ rrun.pc = "done" =>
                   rrun.response = create_response(200, "Webhook received")

\* a command written after leading whitespace has been routed to its handler
\* by the worker and enqueued by the receiver
C38_Witness ==
    /\ Handled
    /\ drun.invoked[1] = "handle_ping"
    /\ drun.update.text # strip(drun.update.text)
    /\ rrun.queue # <<>>

=============================================================================
